---------------------------- MODULE Spec2Model ----------------------------
(***************************************************************************)
(* A model of the scoring and aggregation core of geo-search:              *)
(*   src/src/seo_metrics.py      the 0..1 convention (SEOMetrics)          *)
(*   src/src/seo/seo_metrics.py  the 0..100 convention (SEOMetrics)        *)
(* Python floats are modelled as exact rationals <<n, d>> in lowest terms. *)
(* The outcome of a Python call is a record [exc, val]: exc is "none" when *)
(* the call returns val, and the name of the exception when it raises.     *)
(***************************************************************************)
EXTENDS Integers, Sequences, FiniteSets, TLC

VARIABLES
    rs_value,    \* range scorer: the first measured value
    rs_value2,   \* range scorer: a second measured value, judged against the same range
    rs_min,      \* range scorer: lower bound of the ideal range
    rs_max,      \* range scorer: upper bound of the ideal range
    rs_norm,     \* outcomes of _normalize_score on <<rs_value, rs_value2>>
    rs_range,    \* outcomes of _calculate_range_score on <<rs_value, rs_value2>>
    m_analysis,    \* SEOMetrics (0..1): the seo_analysis the caller passes
    m_metrics,    \* SEOMetrics (0..1): outcome of compute_metrics(analysis)
    m_overall,   \* SEOMetrics (0..1): outcome of _compute_overall_score(analysis)
    agg_analysis,  \* SEOMetrics (0..100): the seo_analysis the caller passes
    agg_stack,     \* SEOMetrics (0..100): the call stack, innermost frame last
    agg_ret,       \* SEOMetrics (0..100): what the frame that just returned handed back
    agg_outcome,   \* SEOMetrics (0..100): outcome of the caller's compute_metrics call
    rd_score,      \* readability: the Flesch score handed to _get_readability_level
    rd_level,      \* readability: outcome of _get_readability_level(rd_score)
    rd_text,       \* readability: the text handed to ReadabilityAnalyzer.analyze_readability
    rd_content,    \* readability: the content_analysis section handed to _compute_readability
    rd_report,     \* readability: outcome of analyze_readability(rd_text)
    rd_seo,        \* readability: outcome of SEOMetrics._compute_readability
    an_analysis,   \* sub-analysers: the seo_analysis handed to them
    an_recs,       \* sub-analysers: outcome of _generate_recommendations (0..100)
    an_image100,   \* sub-analysers: outcome of _analyze_image_optimization (0..100)
    an_image,      \* sub-analysers: outcome of _compute_image_optimization (0..1)
    cr_robots,     \* crawlability: the text of robots.txt
    cr_bot,        \* crawlability: the name of the bot looked up in llm_bots
    cr_directive,  \* crawlability: outcome of _analyze_bot_directive for cr_bot
    cr_directives, \* crawlability: the mapping of bot directives, in its order
    cr_summary,    \* crawlability: outcome of _generate_llm_bot_summary
    ai_analysis,   \* AI readability: the seo_analysis handed to analyze_seo_structure
    ai_structure,  \* AI readability: outcome of analyze_seo_structure(ai_analysis)
    ai_levels,     \* AI readability: the heading levels handed to _check_heading_hierarchy
    ai_hierarchy,  \* AI readability: outcome of _check_heading_hierarchy(ai_levels)
    cs_parts,      \* crawlability score: the five analyses handed to _compute_overall_score
    cs_overall,    \* crawlability score: outcome of _compute_overall_score
    in_ideal_ranges, \* one SEOMetrics instance: its attribute ideal_ranges
    in_stop_words, \* one SEOMetrics instance: its attribute stop_words
    in_analysis,   \* one SEOMetrics instance: the analysis dict of the caller, as it is now
    in_calls,      \* one SEOMetrics instance: the calls made, <<analysis passed, outcome>>
    sc_text,       \* scorers: the text handed to _count_syllables
    sc_syllables,  \* scorers: outcome of _count_syllables(sc_text)
    sc_headings,   \* scorers: the heading_structure handed to _calculate_heading_score
    sc_heading_score, \* scorers: outcome of _calculate_heading_score(sc_headings)
    sc_links,      \* scorers: the links handed to _calculate_link_text_score
    sc_link_score  \* scorers: outcome of _calculate_link_text_score(sc_links)

varsRange == <<rs_value, rs_value2, rs_min, rs_max, rs_norm, rs_range>>
varsMetrics == <<m_analysis, m_metrics, m_overall>>
varsAggregate == <<agg_analysis, agg_stack, agg_ret, agg_outcome>>

varsReadability == <<rd_score, rd_level, rd_text, rd_content, rd_report, rd_seo>>
varsSections == <<an_analysis, an_recs, an_image100, an_image>>
varsCrawl == <<cr_robots, cr_bot, cr_directive, cr_directives, cr_summary>>
varsStructure == <<ai_analysis, ai_structure, ai_levels, ai_hierarchy>>
varsCrawlScore == <<cs_parts, cs_overall>>
varsInstance == <<in_ideal_ranges, in_stop_words, in_analysis, in_calls>>
varsScorers == <<sc_text, sc_syllables, sc_headings, sc_heading_score, sc_links, sc_link_score>>

vars ==
    <<varsRange, varsMetrics, varsAggregate, varsReadability, varsSections,
      varsCrawl, varsStructure, varsCrawlScore, varsInstance, varsScorers>>

\* what the calls on one group of variables leave alone
restRange ==
    <<varsMetrics, varsAggregate, varsReadability, varsSections, varsCrawl,
      varsStructure, varsCrawlScore, varsInstance, varsScorers>>
restMetrics ==
    <<varsRange, varsAggregate, varsReadability, varsSections, varsCrawl,
      varsStructure, varsCrawlScore, varsInstance, varsScorers>>
restAggregate ==
    <<varsRange, varsMetrics, varsReadability, varsSections, varsCrawl,
      varsStructure, varsCrawlScore, varsInstance, varsScorers>>
restReadability ==
    <<varsRange, varsMetrics, varsAggregate, varsSections, varsCrawl, varsStructure,
      varsCrawlScore, varsInstance, varsScorers>>
restSections ==
    <<varsRange, varsMetrics, varsAggregate, varsReadability, varsCrawl,
      varsStructure, varsCrawlScore, varsInstance, varsScorers>>
restCrawl ==
    <<varsRange, varsMetrics, varsAggregate, varsReadability, varsSections,
      varsStructure, varsCrawlScore, varsInstance, varsScorers>>
restStructure ==
    <<varsRange, varsMetrics, varsAggregate, varsReadability, varsSections,
      varsCrawl, varsCrawlScore, varsInstance, varsScorers>>
restCrawlScore ==
    <<varsRange, varsMetrics, varsAggregate, varsReadability, varsSections,
      varsCrawl, varsStructure, varsInstance, varsScorers>>
restInstance ==
    <<varsRange, varsMetrics, varsAggregate, varsReadability, varsSections,
      varsCrawl, varsStructure, varsCrawlScore, varsScorers>>
restScorers ==
    <<varsRange, varsMetrics, varsAggregate, varsReadability, varsSections,
      varsCrawl, varsStructure, varsCrawlScore, varsInstance>>

---------------------------------------------------------------------------
(* Bounds of the model *)

\* measured values are the integers -MaxValue .. MaxValue and the halves between 0 and 2
MaxValue == 7
\* range bounds are the integers 0 .. MaxBound (and the keyword-density bound 1/2)
MaxBound == 3
\* an oversized page measures FarFactor times the upper bound of each ideal range
FarFactor == 4
\* the interpreter's recursion limit: the deepest call stack before RecursionError
RecursionLimit == 6
\* the generated texts hold up to MaxWords words
MaxWords == 3
\* the Flesch scores handed to _get_readability_level reach 10 * MaxDecade + 9
MaxDecade == 10
\* the analysed pages hold up to MaxImages images
MaxImages == 5
\* the robots.txt texts hold up to MaxLines lines
MaxLines == 3
\* the mappings of bot directives made by hand hold up to MaxBots bots
MaxBots == 3
\* the pages hold up to MaxHeadings headings
MaxHeadings == 4
\* the longest sequence of compute_metrics calls made on one instance
MaxCalls == 3
\* the longest list of links scored
MaxLinks == 2
---------------------------------------------------------------------------
(* Exact rational arithmetic standing for Python float arithmetic *)

Abs(i) == IF i < 0 THEN -i ELSE i

RECURSIVE GCD(_, _)
GCD(a, b) == IF b = 0 THEN a ELSE GCD(b, a % b)

\* the rational n/d in lowest terms with a positive denominator (d # 0)
Rat(n, d) ==
    LET g == GCD(Abs(n), Abs(d))
        s == IF d < 0 THEN -1 ELSE 1
    IN  <<(s * n) \div g, (s * d) \div g>>

Whole(i) == <<i, 1>>
Zero == Whole(0)
One == Whole(1)
Hundred == Whole(100)

RAdd(a, b) ==
    LET l == (a[2] * b[2]) \div GCD(a[2], b[2])
    IN  Rat(a[1] * (l \div a[2]) + b[1] * (l \div b[2]), l)
RNeg(a) == <<-a[1], a[2]>>
RSub(a, b) == RAdd(a, RNeg(b))
RMul(a, b) ==
    LET g1 == GCD(Abs(a[1]), b[2])
        g2 == GCD(Abs(b[1]), a[2])
        h1 == IF g1 = 0 THEN 1 ELSE g1
        h2 == IF g2 = 0 THEN 1 ELSE g2
    IN  Rat((a[1] \div h1) * (b[1] \div h2), (a[2] \div h2) * (b[2] \div h1))
\* a / b for b # 0
RDiv(a, b) == RMul(a, Rat(b[2], b[1]))
RLt(a, b) == a[1] * b[2] < b[1] * a[2]
RLe(a, b) == a[1] * b[2] <= b[1] * a[2]
RMax(a, b) == IF RLt(a, b) THEN b ELSE a

---------------------------------------------------------------------------
(* Outcomes of a call *)

Return(v) == [exc |-> "none", val |-> v]
Raise(e) == [exc |-> e, val |-> Zero]
\* the call has not been made
Pending == [exc |-> "pending", val |-> Zero]
Returned(o) == o.exc = "none"
Raised(o) == o.exc \notin {"none", "pending"}

---------------------------------------------------------------------------
(* Python values, tagged by type: numbers (bool included, True == 1), None, *)
(* strings (a sequence of characters), dicts (a function of the keys) and    *)
(* lists (a sequence of values)                                              *)

Num(r) == [t |-> "num", r |-> r]
PyBool(b) == [t |-> "bool", r |-> IF b THEN One ELSE Zero]
PyNone == [t |-> "none"]
Text(s) == [t |-> "str", s |-> s]
Dict(f) == [t |-> "dict", d |-> f]
List(l) == [t |-> "list", l |-> l]
EmptyDict == Dict(<<>>)
\* the string 'invalid' of the tests, standing for a string where a number is expected
PyStr == Text(<<"i", "n", "v", "a", "l", "i", "d">>)
IsNum(x) == x.t \in {"num", "bool"}

\* bool(x)
Truthy(x) ==
    CASE IsNum(x) -> x.r # Zero
      [] x.t = "none" -> FALSE
      [] x.t = "str" -> x.s # <<>>
      [] x.t = "dict" -> DOMAIN x.d # {}
      [] x.t = "list" -> x.l # <<>>

\* o, then F on what o returned: the statements of a block in sequence, an
\* exception ending the block
Bind(o, F(_)) == IF Returned(o) THEN F(o.val) ELSE o

\* try: return <o>  except Exception: return dflt
Try(o, dflt) == IF Returned(o) THEN o.val ELSE dflt

\* x[k] for a string key k
Subscript(x, k) ==
    IF x.t = "dict"
    THEN IF k \in DOMAIN x.d THEN Return(x.d[k]) ELSE Raise("KeyError")
    ELSE Raise("TypeError")

\* x.get(k, dflt)
Get(x, k, dflt) ==
    IF x.t = "dict"
    THEN Return(IF k \in DOMAIN x.d THEN x.d[k] ELSE dflt)
    ELSE Raise("AttributeError")

\* x > 0
Positive(x) == IF IsNum(x) THEN Return(RLt(Zero, x.r)) ELSE Raise("TypeError")

\* a / b
PyDiv(a, b) ==
    IF ~(IsNum(a) /\ IsNum(b)) THEN Raise("TypeError")
    ELSE IF b.r = Zero THEN Raise("ZeroDivisionError")
    ELSE Return(RDiv(a.r, b.r))

\* a + b on numbers
PyAdd(a, b) ==
    IF ~(IsNum(a) /\ IsNum(b)) THEN Raise("TypeError") ELSE Return(Num(RAdd(a.r, b.r)))

RECURSIVE RSumOver(_, _)
RSumOver(f, S) ==
    IF S = {} THEN Zero
    ELSE LET k == CHOOSE x \in S : TRUE IN RAdd(f[k], RSumOver(f, S \ {k}))

\* sum(d.values()) of a dict d
SumValues(x) ==
    IF x.t # "dict" THEN Raise("AttributeError")
    ELSE IF \E k \in DOMAIN x.d : ~IsNum(x.d[k]) THEN Raise("TypeError")
    ELSE Return(RSumOver([k \in DOMAIN x.d |-> x.d[k].r], DOMAIN x.d))

---------------------------------------------------------------------------
(* The range scorers *)

\* _normalize_score_try with the "1 -" of the decay above the range forgotten
_normalize_score_nodecay(value, min_val, max_val) ==
    IF min_val = max_val
    THEN Return(IF IsNum(value) /\ value.r = Zero THEN Zero ELSE One)
    ELSE IF ~IsNum(value)
         THEN Raise("TypeError")
         ELSE IF RLt(value.r, min_val)
              THEN Return(IF min_val # Zero THEN RDiv(value.r, min_val) ELSE Zero)
              ELSE IF RLt(max_val, value.r)
                   THEN IF max_val = Zero
                        THEN Raise("ZeroDivisionError")
                        ELSE Return(RDiv(RSub(value.r, max_val), max_val))
                   ELSE Return(One)

\* the try block of _normalize_score; min_val and max_val are numbers.
\* Comparing None or a string with a number by == is False, by < a TypeError.
_normalize_score_try(value, min_val, max_val) ==
    IF min_val = max_val
    THEN Return(IF IsNum(value) /\ value.r = Zero THEN Zero ELSE One)
    ELSE IF ~IsNum(value)
         THEN Raise("TypeError")
         ELSE IF RLt(value.r, min_val)
              THEN Return(IF min_val # Zero THEN RDiv(value.r, min_val) ELSE Zero)
              ELSE IF RLt(max_val, value.r)
                   THEN IF max_val = Zero
                        THEN Raise("ZeroDivisionError")
                        ELSE Return(RSub(One, RDiv(RSub(value.r, max_val), max_val)))
                   ELSE Return(One)

\* SEOMetrics._normalize_score of src/seo_metrics.py: except Exception -> 0.0
_normalize_score(value, min_val, max_val) ==
    LET o == _normalize_score_try(value, min_val, max_val)
    IN  IF Returned(o) THEN o ELSE Return(Zero)

\* _calculate_range_score with the range test written with strict comparisons
_calculate_range_score_strict(value, optimal_range) ==
    LET min_val == optimal_range[1]
        max_val == optimal_range[2]
    IN  IF ~IsNum(value)
        THEN Raise("TypeError")
        ELSE IF RLt(min_val, value.r) /\ RLt(value.r, max_val)
             THEN Return(Hundred)
             ELSE IF RLt(value.r, min_val)
                  THEN IF min_val = Zero
                       THEN Raise("ZeroDivisionError")
                       ELSE Return(RMul(RDiv(value.r, min_val), Hundred))
                  ELSE IF max_val = Zero
                       THEN Raise("ZeroDivisionError")
                       ELSE Return(RMax(Zero, RSub(Hundred,
                                RMul(RDiv(RSub(value.r, max_val), max_val), Hundred))))

\* SEOMetrics._calculate_range_score of src/seo/seo_metrics.py (no try block)
_calculate_range_score(value, optimal_range) ==
    LET min_val == optimal_range[1]
        max_val == optimal_range[2]
    IN  IF ~IsNum(value)
        THEN Raise("TypeError")
        ELSE IF RLe(min_val, value.r) /\ RLe(value.r, max_val)
             THEN Return(Hundred)
             ELSE IF RLt(value.r, min_val)
                  THEN IF min_val = Zero
                       THEN Raise("ZeroDivisionError")
                       ELSE Return(RMul(RDiv(value.r, min_val), Hundred))
                  ELSE IF max_val = Zero
                       THEN Raise("ZeroDivisionError")
                       ELSE Return(RMax(Zero, RSub(Hundred,
                                RMul(RDiv(RSub(value.r, max_val), max_val), Hundred))))

---------------------------------------------------------------------------
(* Strings: a string is the sequence of its characters *)

UpperCase == <<"A", "B", "C", "D", "E", "F", "G", "H", "I", "J", "K", "L",
               "M", "N", "O", "P", "Q", "R", "S", "T", "U", "V", "W", "X", "Y", "Z">>
LowerCase == <<"a", "b", "c", "d", "e", "f", "g", "h", "i", "j", "k", "l",
               "m", "n", "o", "p", "q", "r", "s", "t", "u", "v", "w", "x", "y", "z">>
Digits == {"0", "1", "2", "3", "4", "5", "6", "7", "8", "9"}
Whitespace == {" ", "\t", "\n", "\r"}
Range(q) == {q[i] : i \in DOMAIN q}
\* the characters \w matches
WordChars == Range(UpperCase) \cup Range(LowerCase) \cup Digits \cup {"_"}

LowerChar(c) ==
    IF c \in Range(UpperCase)
    THEN LowerCase[CHOOSE i \in DOMAIN UpperCase : UpperCase[i] = c]
    ELSE c
\* str.Lower()
Lower(q) == [i \in DOMAIN q |-> LowerChar(q[i])]

\* the maximal runs of characters of q that are in (keep) or not in (~keep) the
\* set cs, in order; cur is the run being read
RECURSIVE Runs(_, _, _, _, _)
Runs(q, i, cs, keep, cur) ==
    IF i > Len(q)
    THEN IF cur = <<>> THEN <<>> ELSE <<cur>>
    ELSE IF (q[i] \in cs) = keep
         THEN Runs(q, i + 1, cs, keep, Append(cur, q[i]))
         ELSE (IF cur = <<>> THEN <<>> ELSE <<cur>>) \o Runs(q, i + 1, cs, keep, <<>>)

\* str.split(): the maximal runs of non-whitespace
Split(q) == Runs(q, 1, Whitespace, FALSE, <<>>)
\* re.findall(r'\w+', q)
FindWords(q) == Runs(q, 1, WordChars, TRUE, <<>>)

\* re.split(pattern, q) for a pattern matching the non-empty runs of the
\* characters cs: the pieces between the runs, the empty pieces at either end
\* and between adjacent matches included
RECURSIVE ReSplit(_, _, _, _)
ReSplit(q, i, cs, cur) ==
    IF i > Len(q)
    THEN <<cur>>
    ELSE IF q[i] \in cs
         THEN IF i > 1 /\ q[i - 1] \in cs
              THEN ReSplit(q, i + 1, cs, cur)
              ELSE <<cur>> \o ReSplit(q, i + 1, cs, <<>>)
         ELSE ReSplit(q, i + 1, cs, Append(cur, q[i]))

SentenceEnd == {".", "!", "?"}

---------------------------------------------------------------------------
(* SEOMetrics of src/seo_metrics.py: the 0..1 convention *)

\* self.stop_words
stop_words ==
    {<<"t", "h", "e">>, <<"b", "e">>, <<"t", "o">>, <<"o", "f">>,
     <<"a", "n", "d">>, <<"a">>, <<"i", "n">>, <<"t", "h", "a", "t">>,
     <<"h", "a", "v", "e">>, <<"i">>, <<"i", "t">>, <<"f", "o", "r">>,
     <<"n", "o", "t">>, <<"o", "n">>, <<"w", "i", "t", "h">>, <<"h", "e">>,
     <<"a", "s">>, <<"y", "o", "u">>, <<"d", "o">>, <<"a", "t">>,
     <<"t", "h", "i", "s">>, <<"b", "u", "t">>, <<"h", "i", "s">>,
     <<"b", "y">>, <<"f", "r", "o", "m">>, <<"t", "h", "e", "y">>,
     <<"w", "e">>, <<"s", "a", "y">>, <<"h", "e", "r">>, <<"s", "h", "e">>,
     <<"o", "r">>, <<"a", "n">>, <<"w", "i", "l", "l">>, <<"m", "y">>,
     <<"o", "n", "e">>, <<"a", "l", "l">>, <<"w", "o", "u", "l", "d">>,
     <<"t", "h", "e", "r", "e">>, <<"t", "h", "e", "i", "r">>,
     <<"w", "h", "a", "t">>}

\* self.ideal_ranges
ideal_ranges ==
    [title_length |-> <<Whole(30), Whole(60)>>,
     meta_description_length |-> <<Whole(120), Whole(160)>>,
     content_length |-> <<Whole(300), Whole(2500)>>,
     keyword_density |-> <<Rat(1, 2), Whole(3)>>,
     text_html_ratio |-> <<Whole(15), Whole(70)>>,
     heading_density |-> <<Rat(1, 10), Rat(3, 10)>>,
     link_density |-> <<Rat(1, 10), Rat(3, 10)>>,
     image_density |-> <<Rat(1, 10), Rat(3, 10)>>]

\* _normalize_score against a named ideal range
NormalizeAgainst(value, name) ==
    _normalize_score(value, ideal_ranges[name][1], ideal_ranges[name][2]).val

_get_default_metrics ==
    [content_quality |->
        [content_length_score |-> Zero, heading_structure_score |-> Zero,
         paragraph_structure_score |-> Zero, text_html_ratio_score |-> Zero,
         overall_content_score |-> Zero],
     technical_score |->
        [meta_tags_score |-> Zero, technical_elements_score |-> Zero,
         overall_technical_score |-> Zero],
     readability |->
        [flesch_reading_ease |-> Zero, avg_sentence_length |-> Zero,
         avg_word_length |-> Zero, readability_level |-> "Unknown"],
     keyword_optimization |->
        [keyword_density_scores |-> <<>>, keywords_in_title |-> <<>>,
         keywords_in_meta |-> <<>>, keyword_optimization_score |-> Zero],
     link_quality |->
        [internal_external_ratio |-> Zero, internal_link_text_score |-> Zero,
         external_link_text_score |-> Zero, overall_link_quality_score |-> Zero],
     image_optimization |->
        [alt_text_score |-> Zero, dimensions_score |-> Zero, overall_image_score |-> Zero],
     overall_score |->
        [overall_score |-> Zero,
         score_breakdown |->
            [content_quality |-> Zero, technical_score |-> Zero, keyword_score |-> Zero,
             link_score |-> Zero, image_score |-> Zero]]]

_calculate_heading_score(headings) ==
    Try(Bind(Get(headings, "h1", Num(Zero)), LAMBDA h1 :
        Bind(Positive(h1), LAMBDA has_h1 :
        Bind(Get(headings, "h2", Num(Zero)), LAMBDA h2 :
        Bind(Positive(h2), LAMBDA has_h2 :
        Bind(SumValues(headings), LAMBDA total_headings :
            LET heading_density ==
                    IF RLt(Zero, total_headings)
                    THEN RDiv(total_headings, Hundred) ELSE Zero
                hierarchy_score == IF has_h1 /\ has_h2 THEN One ELSE Rat(1, 2)
                density_score == NormalizeAgainst(Num(heading_density), "heading_density")
            IN  Return(RDiv(RAdd(hierarchy_score, density_score), Whole(2)))))))),
        Zero)

_calculate_paragraph_score(content) ==
    Try(Bind(Get(content, "paragraph_count", Num(Zero)), LAMBDA paragraph_count :
        Bind(Get(content, "avg_paragraph_length", Num(Zero)), LAMBDA avg_length :
            LET count_score == _normalize_score(paragraph_count, Whole(3), Whole(10)).val
                length_score == _normalize_score(avg_length, Whole(50), Whole(150)).val
            IN  Return(RDiv(RAdd(count_score, length_score), Whole(2))))),
        Zero)

\* title.get('found', False) selects the range score of title.get('length', 0), else 0
MetaPartScore(part, name) ==
    Bind(Get(part, "found", PyBool(FALSE)), LAMBDA found :
        IF Truthy(found)
        THEN Bind(Get(part, "length", Num(Zero)), LAMBDA length :
                 Return(NormalizeAgainst(length, name)))
        ELSE Return(Zero))

_calculate_meta_score(meta) ==
    Try(Bind(Get(meta, "title", EmptyDict), LAMBDA title :
        Bind(Get(meta, "meta_description", EmptyDict), LAMBDA description :
        Bind(MetaPartScore(title, "title_length"), LAMBDA title_score :
        Bind(MetaPartScore(description, "meta_description_length"), LAMBDA desc_score :
            Return(RDiv(RAdd(title_score, desc_score), Whole(2))))))),
        Zero)

\* _compute_content_quality without the read of analysis['meta_tags'], which it never uses
_compute_content_quality_nometa(analysis) ==
    Try(Bind(Subscript(analysis, "content_analysis"), LAMBDA content :
        Bind(Get(content, "content_length", Num(Zero)), LAMBDA content_length :
        Bind(Get(content, "heading_structure", EmptyDict), LAMBDA headings :
        Bind(Get(content, "text_html_ratio", Num(Zero)), LAMBDA text_html_ratio :
            LET content_length_score == NormalizeAgainst(content_length, "content_length")
                heading_score == _calculate_heading_score(headings)
                paragraph_score == _calculate_paragraph_score(content)
            IN  Return([content_length_score |-> content_length_score,
                        heading_structure_score |-> heading_score,
                        paragraph_structure_score |-> paragraph_score,
                        text_html_ratio_score |->
                            NormalizeAgainst(text_html_ratio, "text_html_ratio"),
                        overall_content_score |->
                            RDiv(RAdd(RAdd(content_length_score, heading_score),
                                      paragraph_score), Whole(3))]))))),
        _get_default_metrics.content_quality)

_compute_content_quality(analysis) ==
    Try(Bind(Subscript(analysis, "content_analysis"), LAMBDA content :
        Bind(Subscript(analysis, "meta_tags"), LAMBDA meta :
        Bind(Get(content, "content_length", Num(Zero)), LAMBDA content_length :
        Bind(Get(content, "heading_structure", EmptyDict), LAMBDA headings :
        Bind(Get(content, "text_html_ratio", Num(Zero)), LAMBDA text_html_ratio :
            LET content_length_score == NormalizeAgainst(content_length, "content_length")
                heading_score == _calculate_heading_score(headings)
                paragraph_score == _calculate_paragraph_score(content)
            IN  Return([content_length_score |-> content_length_score,
                        heading_structure_score |-> heading_score,
                        paragraph_structure_score |-> paragraph_score,
                        text_html_ratio_score |->
                            NormalizeAgainst(text_html_ratio, "text_html_ratio"),
                        overall_content_score |->
                            RDiv(RAdd(RAdd(content_length_score, heading_score),
                                      paragraph_score), Whole(3))])))))),
        _get_default_metrics.content_quality)

TechnicalElements == <<"has_viewport", "has_favicon", "has_structured_data",
                       "has_analytics", "has_robots_txt">>

\* the dict technical_elements: every technical[...] read in order, then
\* sum(technical_elements.values()) / len(technical_elements)
TechnicalElementsScore(technical) ==
    IF technical.t # "dict" THEN Raise("TypeError")
    ELSE IF \E i \in 1 .. Len(TechnicalElements) : TechnicalElements[i] \notin DOMAIN technical.d
         THEN Raise("KeyError")
    ELSE IF \E i \in 1 .. Len(TechnicalElements) : ~IsNum(technical.d[TechnicalElements[i]])
         THEN Raise("TypeError")
    ELSE Return(RDiv(RSumOver([i \in 1 .. Len(TechnicalElements) |->
                                   technical.d[TechnicalElements[i]].r],
                              1 .. Len(TechnicalElements)),
                     Whole(Len(TechnicalElements))))

_compute_technical_score(analysis) ==
    Try(Bind(Subscript(analysis, "technical_seo"), LAMBDA technical :
        Bind(Subscript(analysis, "meta_tags"), LAMBDA meta :
        Bind(TechnicalElementsScore(technical), LAMBDA technical_score :
            LET meta_score == _calculate_meta_score(meta)
            IN  Return([meta_tags_score |-> meta_score,
                        technical_elements_score |-> technical_score,
                        overall_technical_score |->
                            RDiv(RAdd(meta_score, technical_score), Whole(2))])))),
        _get_default_metrics.technical_score)

\* _compute_image_optimization counting a page without images as fully covered
_compute_image_optimization_full(analysis) ==
    Try(Bind(Subscript(analysis, "image_analysis"), LAMBDA images :
        Bind(Get(images, "total_images", Num(Zero)), LAMBDA total_images :
        Bind(Positive(total_images), LAMBDA some_images :
        Bind(IF some_images
             THEN Bind(Subscript(images, "images_with_alt"), LAMBDA with_alt :
                      PyDiv(with_alt, total_images))
             ELSE Return(One), LAMBDA alt_text_score :
        Bind(IF some_images
             THEN Bind(Subscript(images, "images_with_dimensions"), LAMBDA with_dims :
                      PyDiv(with_dims, total_images))
             ELSE Return(One), LAMBDA dimensions_score :
            Return([alt_text_score |-> alt_text_score,
                    dimensions_score |-> dimensions_score,
                    overall_image_score |->
                        RDiv(RAdd(alt_text_score, dimensions_score), Whole(2))])))))),
        _get_default_metrics.image_optimization)

_compute_image_optimization(analysis) ==
    Try(Bind(Subscript(analysis, "image_analysis"), LAMBDA images :
        Bind(Get(images, "total_images", Num(Zero)), LAMBDA total_images :
        Bind(Positive(total_images), LAMBDA some_images :
        Bind(IF some_images
             THEN Bind(Subscript(images, "images_with_alt"), LAMBDA with_alt :
                      PyDiv(with_alt, total_images))
             ELSE Return(Zero), LAMBDA alt_text_score :
        Bind(IF some_images
             THEN Bind(Subscript(images, "images_with_dimensions"), LAMBDA with_dims :
                      PyDiv(with_dims, total_images))
             ELSE Return(Zero), LAMBDA dimensions_score :
            Return([alt_text_score |-> alt_text_score,
                    dimensions_score |-> dimensions_score,
                    overall_image_score |->
                        RDiv(RAdd(alt_text_score, dimensions_score), Whole(2))])))))),
        _get_default_metrics.image_optimization)

Vowels == {"a", "e", "i", "o", "u", "y"}

\* the running count after one word of the loop of _count_syllables
SyllablesAfterWord(count, word) ==
    LET c1 == IF word[1] \in Vowels THEN count + 1 ELSE count
        c2 == c1 + Cardinality({i \in 2 .. Len(word) :
                                    word[i] \in Vowels /\ word[i - 1] \notin Vowels})
        c3 == IF word[Len(word)] = "e" THEN c2 - 1 ELSE c2
    IN  IF c3 = 0 THEN c3 + 1 ELSE c3

RECURSIVE SyllablesOfWords(_, _, _)
SyllablesOfWords(words, i, count) ==
    IF i > Len(words) THEN count
    ELSE SyllablesOfWords(words, i + 1, SyllablesAfterWord(count, words[i]))

_count_syllables(text) ==
    Try(IF text.t # "str" THEN Raise("AttributeError")
        ELSE Return(SyllablesOfWords(Split(Lower(text.s)), 1, 0)),
        0)

\* _get_readability_level without its last branch: a negative score is 'Very Difficult'
_get_readability_level_nofloor(flesch_score) ==
    Try(IF ~IsNum(flesch_score) THEN Raise("TypeError")
        ELSE LET f == flesch_score.r
             IN  Return(IF RLe(Whole(90), f) THEN "Very Easy"
                        ELSE IF RLe(Whole(80), f) THEN "Easy"
                        ELSE IF RLe(Whole(70), f) THEN "Fairly Easy"
                        ELSE IF RLe(Whole(60), f) THEN "Standard"
                        ELSE IF RLe(Whole(50), f) THEN "Fairly Difficult"
                        ELSE IF RLe(Whole(30), f) THEN "Difficult"
                        ELSE "Very Difficult"),
        "Unknown")

_get_readability_level(flesch_score) ==
    Try(IF ~IsNum(flesch_score) THEN Raise("TypeError")
        ELSE LET f == flesch_score.r
             IN  Return(IF RLe(Whole(90), f) THEN "Very Easy"
                        ELSE IF RLe(Whole(80), f) THEN "Easy"
                        ELSE IF RLe(Whole(70), f) THEN "Fairly Easy"
                        ELSE IF RLe(Whole(60), f) THEN "Standard"
                        ELSE IF RLe(Whole(50), f) THEN "Fairly Difficult"
                        ELSE IF RLe(Whole(30), f) THEN "Difficult"
                        ELSE IF RLe(Zero, f) THEN "Very Difficult"
                        ELSE "Unknown"),
        "Unknown")

RECURSIVE TotalLen(_, _)
TotalLen(words, i) == IF i > Len(words) THEN 0 ELSE Len(words[i]) + TotalLen(words, i + 1)

_compute_readability(analysis) ==
    Try(Bind(Subscript(analysis, "content_analysis"), LAMBDA content :
        Bind(Get(content, "main_content", Text(<<>>)), LAMBDA text :
            IF text.t # "str" THEN Raise("TypeError")
            ELSE LET sentences == Len(ReSplit(text.s, 1, SentenceEnd, <<>>))
                     words == Len(Split(text.s))
                     syllables == _count_syllables(text)
                     flesch_score ==
                         IF sentences > 0 /\ words > 0
                         THEN RSub(RSub(Rat(206835, 1000),
                                        RMul(Rat(1015, 1000), Rat(words, sentences))),
                                   RMul(Rat(846, 10), Rat(syllables, words)))
                         ELSE Zero
                 IN  Return([flesch_reading_ease |-> flesch_score,
                             avg_sentence_length |->
                                 IF sentences > 0 THEN Rat(words, sentences) ELSE Zero,
                             avg_word_length |->
                                 IF words > 0 THEN Rat(TotalLen(Split(text.s), 1), words)
                                 ELSE Zero,
                             readability_level |->
                                 _get_readability_level(Num(flesch_score))]))),
        _get_default_metrics.readability)

_get_keywords_in_text(text) ==
    Try(IF text.t # "str" THEN Raise("AttributeError")
        ELSE Return(SelectSeq(FindWords(Lower(text.s)),
                              LAMBDA word : word \notin stop_words /\ Len(word) > 2)),
        <<>>)

\* the loop over top_keywords.items(): the range score of every data['density']
DensityScores(top) ==
    IF top.t # "dict" THEN Raise("AttributeError")
    ELSE IF \E w \in DOMAIN top.d : top.d[w].t # "dict" THEN Raise("TypeError")
    ELSE IF \E w \in DOMAIN top.d : "density" \notin DOMAIN top.d[w].d THEN Raise("KeyError")
    ELSE Return([w \in DOMAIN top.d |->
                    NormalizeAgainst(top.d[w].d["density"], "keyword_density")])

\* meta.get(name, {}).get('content', '')
MetaContent(meta, name) ==
    Bind(Get(meta, name, EmptyDict), LAMBDA part : Get(part, "content", Text(<<>>)))

_compute_keyword_optimization(analysis) ==
    Try(Bind(Subscript(analysis, "keyword_analysis"), LAMBDA keywords :
        Bind(Subscript(analysis, "meta_tags"), LAMBDA meta :
        Bind(Get(keywords, "top_keywords", EmptyDict), LAMBDA top :
        Bind(DensityScores(top), LAMBDA density_scores :
        Bind(MetaContent(meta, "title"), LAMBDA title :
        Bind(MetaContent(meta, "meta_description"), LAMBDA description :
            Return([keyword_density_scores |-> density_scores,
                    keywords_in_title |-> _get_keywords_in_text(title),
                    keywords_in_meta |-> _get_keywords_in_text(description),
                    keyword_optimization_score |->
                        IF DOMAIN density_scores # {}
                        THEN RDiv(RSumOver(density_scores, DOMAIN density_scores),
                                  Whole(Cardinality(DOMAIN density_scores)))
                        ELSE Zero]))))))),
        _get_default_metrics.keyword_optimization)

\* LinkScore comparing the lowered tokens of the text with the stopwords
LinkScore_lowered(link) ==
    Bind(Get(link, "text", Text(<<>>)), LAMBDA text :
        IF text.t # "str" THEN Raise("TypeError")
        ELSE LET length_score == _normalize_score(Num(Whole(Len(text.s))), Whole(3), Whole(10)).val
                 words == Split(Lower(text.s))
                 keyword_score ==
                     IF \E i \in 1 .. Len(words) : words[i] \notin stop_words
                     THEN One ELSE Rat(1, 2)
             IN  Return(RDiv(RAdd(length_score, keyword_score), Whole(2))))

\* the score of one link of the loop of _calculate_link_text_score
LinkScore(link) ==
    Bind(Get(link, "text", Text(<<>>)), LAMBDA text :
        IF text.t # "str" THEN Raise("TypeError")
        ELSE LET length_score == _normalize_score(Num(Whole(Len(text.s))), Whole(3), Whole(10)).val
                 words == Split(text.s)
                 keyword_score ==
                     IF \E i \in 1 .. Len(words) : words[i] \notin stop_words
                     THEN One ELSE Rat(1, 2)
             IN  Return(RDiv(RAdd(length_score, keyword_score), Whole(2))))

_calculate_link_text_score(links) ==
    Try(IF ~Truthy(links) THEN Return(Zero)
        ELSE IF links.t # "list" THEN Raise("TypeError")
        ELSE IF \E i \in 1 .. Len(links.l) : Raised(LinkScore(links.l[i]))
             THEN Raise("AttributeError")
        ELSE Return(RDiv(RSumOver([i \in 1 .. Len(links.l) |-> LinkScore(links.l[i]).val],
                                  1 .. Len(links.l)),
                         Whole(Len(links.l)))),
        Zero)

_compute_link_quality(analysis) ==
    Try(Bind(Subscript(analysis, "link_analysis"), LAMBDA links :
        Bind(Subscript(links, "internal_links"), LAMBDA internal :
        Bind(Subscript(internal, "count"), LAMBDA internal_count :
        Bind(Subscript(links, "external_links"), LAMBDA external :
        Bind(Subscript(external, "count"), LAMBDA external_count :
        Bind(PyAdd(internal_count, external_count), LAMBDA total_links :
        Bind(IF RLt(Zero, total_links.r) THEN PyDiv(internal_count, total_links)
             ELSE Return(Zero), LAMBDA internal_ratio :
        Bind(Subscript(internal, "links"), LAMBDA internal_links :
        Bind(Subscript(external, "links"), LAMBDA external_links :
            LET internal_text_score == _calculate_link_text_score(internal_links)
                external_text_score == _calculate_link_text_score(external_links)
            IN  Return([internal_external_ratio |-> internal_ratio,
                        internal_link_text_score |-> internal_text_score,
                        external_link_text_score |-> external_text_score,
                        overall_link_quality_score |->
                            RDiv(RAdd(internal_text_score, external_text_score),
                                 Whole(2))])))))))))),
        _get_default_metrics.link_quality)

\* the weights with the technical weight of the 0..100 module
weights_technical25 ==
    [content |-> Rat(30, 100), technical |-> Rat(25, 100), keyword |-> Rat(20, 100),
     link |-> Rat(15, 100), image |-> Rat(15, 100)]

\* the weights of _compute_overall_score
weights ==
    [content |-> Rat(30, 100), technical |-> Rat(20, 100), keyword |-> Rat(20, 100),
     link |-> Rat(15, 100), image |-> Rat(15, 100)]

\* _compute_overall_score taking the text/HTML ratio score for the content score
_compute_overall_score_ratio(analysis) ==
    Try(LET content_quality == _compute_content_quality(analysis).text_html_ratio_score
            technical_score == _compute_technical_score(analysis).overall_technical_score
            keyword_score == _compute_keyword_optimization(analysis).keyword_optimization_score
            link_score == _compute_link_quality(analysis).overall_link_quality_score
            image_score == _compute_image_optimization(analysis).overall_image_score
            overall_score ==
                RAdd(RAdd(RAdd(RAdd(RMul(content_quality, weights.content),
                                    RMul(technical_score, weights.technical)),
                               RMul(keyword_score, weights.keyword)),
                          RMul(link_score, weights.link)),
                     RMul(image_score, weights.image))
        IN  Return([overall_score |-> overall_score,
                    score_breakdown |->
                        [content_quality |-> content_quality,
                         technical_score |-> technical_score,
                         keyword_score |-> keyword_score,
                         link_score |-> link_score,
                         image_score |-> image_score]]),
        _get_default_metrics.overall_score)

_compute_overall_score(analysis) ==
    Try(LET content_quality == _compute_content_quality(analysis).overall_content_score
            technical_score == _compute_technical_score(analysis).overall_technical_score
            keyword_score == _compute_keyword_optimization(analysis).keyword_optimization_score
            link_score == _compute_link_quality(analysis).overall_link_quality_score
            image_score == _compute_image_optimization(analysis).overall_image_score
            overall_score ==
                RAdd(RAdd(RAdd(RAdd(RMul(content_quality, weights.content),
                                    RMul(technical_score, weights.technical)),
                               RMul(keyword_score, weights.keyword)),
                          RMul(link_score, weights.link)),
                     RMul(image_score, weights.image))
        IN  Return([overall_score |-> overall_score,
                    score_breakdown |->
                        [content_quality |-> content_quality,
                         technical_score |-> technical_score,
                         keyword_score |-> keyword_score,
                         link_score |-> link_score,
                         image_score |-> image_score]]),
        _get_default_metrics.overall_score)

\* compute_metrics reading the sections before its try block
compute_metrics_unguarded(seo_analysis) ==
    IF seo_analysis.t # "dict"
    THEN Raise("TypeError")
    ELSE Return([content_quality |-> _compute_content_quality(seo_analysis),
                 technical_score |-> _compute_technical_score(seo_analysis),
                 readability |-> _compute_readability(seo_analysis),
                 keyword_optimization |-> _compute_keyword_optimization(seo_analysis),
                 link_quality |-> _compute_link_quality(seo_analysis),
                 image_optimization |-> _compute_image_optimization(seo_analysis),
                 overall_score |-> _compute_overall_score(seo_analysis)])

\* SEOMetrics.compute_metrics: what the caller gets
compute_metrics(seo_analysis) ==
    Return(Try(Return([content_quality |-> _compute_content_quality(seo_analysis),
                       technical_score |-> _compute_technical_score(seo_analysis),
                       readability |-> _compute_readability(seo_analysis),
                       keyword_optimization |-> _compute_keyword_optimization(seo_analysis),
                       link_quality |-> _compute_link_quality(seo_analysis),
                       image_optimization |-> _compute_image_optimization(seo_analysis),
                       overall_score |-> _compute_overall_score(seo_analysis)]),
               _get_default_metrics))

\* format(r, '.1f'): the nearest tenth, a tie to the even one
Round1(r) ==
    LET n == r[1] * 10
        q == n \div r[2]
        twice == 2 * (n - q * r[2])
    IN  Rat(IF twice < r[2] THEN q
            ELSE IF twice > r[2] THEN q + 1
            ELSE IF q % 2 = 0 THEN q ELSE q + 1, 10)

---------------------------------------------------------------------------
(* SEOMetrics of src/seo/seo_metrics.py: the 0..100 convention. It has no try *)
(* block: every function returns an outcome, and an exception propagates.     *)

\* self.optimal_ranges
optimal_ranges ==
    [title_length |-> <<Whole(50), Whole(60)>>,
     meta_description_length |-> <<Whole(120), Whole(160)>>,
     content_length |-> <<Whole(300), Whole(2500)>>,
     text_html_ratio |-> <<Whole(20), Whole(70)>>,
     keyword_density |-> <<Whole(1), Whole(3)>>,
     heading_count |-> [h1 |-> <<Whole(1), Whole(1)>>, h2 |-> <<Whole(2), Whole(5)>>,
                        h3 |-> <<Whole(3), Whole(8)>>],
     internal_links |-> <<Whole(5), Whole(20)>>,
     external_links |-> <<Whole(2), Whole(10)>>,
     images_with_alt |-> <<Whole(80), Whole(100)>>,
     paragraph_length |-> <<Whole(50), Whole(150)>>]

\* the record {key: value, 'score': range score, 'optimal_range': range} under
\* the key 'value', 'length' or 'count'
Scored(key, value, name) ==
    Bind(_calculate_range_score(value, optimal_ranges[name]), LAMBDA score :
        Return([k \in {key, "score", "optimal_range"} |->
                   CASE k = "score" -> score
                     [] k = "optimal_range" -> optimal_ranges[name]
                     [] OTHER -> value]))

\* the loop over content['heading_structure'].items()
HeadingScores(headings) ==
    IF headings.t # "dict" THEN Raise("AttributeError")
    ELSE LET levels == DOMAIN headings.d \cap DOMAIN optimal_ranges.heading_count
         IN  IF \E h \in levels : ~IsNum(headings.d[h]) THEN Raise("TypeError")
             ELSE Return([h \in levels |->
                     _calculate_range_score(headings.d[h], optimal_ranges.heading_count[h]).val])

_analyze_content_quality(seo_analysis) ==
    Bind(Subscript(seo_analysis, "content_analysis"), LAMBDA content :
    Bind(Subscript(seo_analysis, "meta_tags"), LAMBDA meta :
    Bind(Subscript(content, "content_length"), LAMBDA content_length :
    Bind(Scored("value", content_length, "content_length"), LAMBDA content_length_scored :
    Bind(Subscript(content, "text_html_ratio"), LAMBDA text_ratio :
    Bind(Scored("value", text_ratio, "text_html_ratio"), LAMBDA text_ratio_scored :
    Bind(Subscript(content, "heading_structure"), LAMBDA headings :
    Bind(HeadingScores(headings), LAMBDA heading_scores :
    Bind(Subscript(content, "paragraph_count"), LAMBDA paragraph_count :
    Bind(Subscript(content, "avg_paragraph_length"), LAMBDA avg_paragraph_length :
        Return([content_length |-> content_length_scored,
                text_html_ratio |-> text_ratio_scored,
                heading_structure |-> heading_scores,
                paragraph_count |-> paragraph_count,
                avg_paragraph_length |-> avg_paragraph_length])))))))))))

\* meta[name]['length']
MetaLength(meta, name) ==
    Bind(Subscript(meta, name), LAMBDA part : Subscript(part, "length"))

_compute_technical_score100(seo_analysis) ==
    Bind(Subscript(seo_analysis, "technical_seo"), LAMBDA technical :
    Bind(Subscript(seo_analysis, "meta_tags"), LAMBDA meta :
    Bind(MetaLength(meta, "title"), LAMBDA title_length :
    Bind(Scored("length", title_length, "title_length"), LAMBDA title_scored :
    Bind(MetaLength(meta, "meta_description"), LAMBDA meta_desc_length :
    Bind(Scored("length", meta_desc_length, "meta_description_length"), LAMBDA meta_desc_scored :
    Bind(TechnicalElementsScore(technical), LAMBDA fraction :
        Return([title |-> title_scored,
                meta_description |-> meta_desc_scored,
                technical_elements |-> [i \in 1 .. Len(TechnicalElements) |->
                                           technical.d[TechnicalElements[i]]],
                technical_score |-> RMul(fraction, Hundred)]))))))))

\* set(re.findall(r'\w+', meta[name]['content'].Lower()))
MetaWords(meta, name) ==
    Bind(Subscript(meta, name), LAMBDA part :
    Bind(Subscript(part, "content"), LAMBDA content :
        IF content.t # "str" THEN Raise("AttributeError")
        ELSE Return(Range(FindWords(Lower(content.s))))))

\* the spelling of the keywords that are keys of top_keywords
Spelling ==
    [sample |-> <<"s", "a", "m", "p", "l", "e">>, test |-> <<"t", "e", "s", "t">>,
     stuffed |-> <<"s", "t", "u", "f", "f", "e", "d">>]

\* the loop over keywords['top_keywords'].items()
KeywordUsage(top, title_words, meta_desc_words) ==
    IF top.t # "dict" THEN Raise("AttributeError")
    ELSE IF \E w \in DOMAIN top.d : top.d[w].t # "dict" THEN Raise("TypeError")
    ELSE IF \E w \in DOMAIN top.d : "density" \notin DOMAIN top.d[w].d THEN Raise("KeyError")
    ELSE IF \E w \in DOMAIN top.d : ~IsNum(top.d[w].d["density"]) THEN Raise("TypeError")
    ELSE Return([w \in DOMAIN top.d |->
                    [density |-> top.d[w].d["density"],
                     in_title |-> Spelling[w] \in title_words,
                     in_meta_description |-> Spelling[w] \in meta_desc_words,
                     score |-> _calculate_range_score(top.d[w].d["density"],
                                                      optimal_ranges.keyword_density).val]])

_analyze_keyword_optimization(seo_analysis) ==
    Bind(Subscript(seo_analysis, "keyword_analysis"), LAMBDA keywords :
    Bind(Subscript(seo_analysis, "meta_tags"), LAMBDA meta :
    Bind(MetaWords(meta, "title"), LAMBDA title_words :
    Bind(MetaWords(meta, "meta_description"), LAMBDA meta_desc_words :
    Bind(Subscript(keywords, "top_keywords"), LAMBDA top :
    Bind(KeywordUsage(top, title_words, meta_desc_words), LAMBDA keyword_usage :
        Return([keyword_usage |-> keyword_usage,
                total_keywords |-> Cardinality(DOMAIN top.d),
                keywords_in_title |-> Cardinality(title_words),
                keywords_in_meta |-> Cardinality(meta_desc_words)])))))))

\* [link['text'] for link in links[name]['links']]
LinkTexts(side) ==
    Bind(Subscript(side, "links"), LAMBDA list :
        IF list.t # "list" THEN Raise("TypeError")
        ELSE IF \E i \in 1 .. Len(list.l) : Raised(Subscript(list.l[i], "text"))
             THEN Raise("KeyError")
        ELSE Return([i \in 1 .. Len(list.l) |-> list.l[i].d["text"]]))

_analyze_link_quality(seo_analysis) ==
    Bind(Subscript(seo_analysis, "link_analysis"), LAMBDA links :
    Bind(Subscript(links, "internal_links"), LAMBDA internal :
    Bind(Subscript(internal, "count"), LAMBDA internal_count :
    Bind(Scored("count", internal_count, "internal_links"), LAMBDA internal_scored :
    Bind(Subscript(links, "external_links"), LAMBDA external :
    Bind(Subscript(external, "count"), LAMBDA external_count :
    Bind(Scored("count", external_count, "external_links"), LAMBDA external_scored :
    Bind(LinkTexts(internal), LAMBDA internal_texts :
    Bind(LinkTexts(external), LAMBDA external_texts :
        Return([internal_links |-> internal_scored,
                external_links |-> external_scored,
                link_text_analysis |-> [internal_texts |-> internal_texts,
                                        external_texts |-> external_texts]]))))))))))

\* (images['images_with_alt'] / images['total_images'] * 100) if images['total_images'] > 0 else 0
AltTextPercentage(images) ==
    Bind(Subscript(images, "total_images"), LAMBDA total_images :
    Bind(Positive(total_images), LAMBDA some_images :
        IF some_images
        THEN Bind(Subscript(images, "images_with_alt"), LAMBDA with_alt :
             Bind(PyDiv(with_alt, total_images), LAMBDA fraction :
                 Return(Num(RMul(fraction, Hundred)))))
        ELSE Return(Num(Zero))))

_analyze_image_optimization(seo_analysis) ==
    Bind(Subscript(seo_analysis, "image_analysis"), LAMBDA images :
    Bind(AltTextPercentage(images), LAMBDA alt_text_percentage :
    Bind(_calculate_range_score(alt_text_percentage, optimal_ranges.images_with_alt),
         LAMBDA alt_text_score :
    Bind(Subscript(images, "images_with_dimensions"), LAMBDA with_dimensions :
    Bind(Subscript(images, "total_images"), LAMBDA total :
        Return([alt_text |-> [percentage |-> alt_text_percentage.r,
                              score |-> alt_text_score,
                              optimal_range |-> optimal_ranges.images_with_alt],
                dimensions |-> [with_dimensions |-> with_dimensions, total |-> total]]))))))

_analyze_readability(seo_analysis) ==
    Bind(Subscript(seo_analysis, "content_analysis"), LAMBDA content :
    Bind(Subscript(content, "avg_paragraph_length"), LAMBDA avg_paragraph_length :
    Bind(_calculate_range_score(avg_paragraph_length, optimal_ranges.paragraph_length),
         LAMBDA paragraph_score :
        Return([paragraph_length |-> [average |-> avg_paragraph_length,
                                      score |-> paragraph_score,
                                      optimal_range |-> optimal_ranges.paragraph_length]]))))

\* one entry of the recommendation list
Recommendation(type, priority, message) ==
    [type |-> type, priority |-> priority, message |-> message]

\* not min <= length <= max
OutsideRange(length, name) ==
    IF ~IsNum(length) THEN Raise("TypeError")
    ELSE Return(~(RLe(optimal_ranges[name][1], length.r) /\ RLe(length.r, optimal_ranges[name][2])))

\* the images check firing at the floor itself as well
ImagesBelowFloor_atfloor(images) ==
    Bind(Subscript(images, "total_images"), LAMBDA total_images :
    Bind(Positive(total_images), LAMBDA some_images :
        IF some_images
        THEN Bind(Subscript(images, "images_with_alt"), LAMBDA with_alt :
             Bind(PyDiv(with_alt, total_images), LAMBDA fraction :
                 Return(RLe(RMul(fraction, Hundred), optimal_ranges.images_with_alt[1]))))
        ELSE Return(FALSE)))

\* the image rule: total_images > 0 and the alt-text percentage below the floor
ImagesBelowFloor(images) ==
    Bind(Subscript(images, "total_images"), LAMBDA total_images :
    Bind(Positive(total_images), LAMBDA some_images :
        IF some_images
        THEN Bind(Subscript(images, "images_with_alt"), LAMBDA with_alt :
             Bind(PyDiv(with_alt, total_images), LAMBDA fraction :
                 Return(RLt(RMul(fraction, Hundred), optimal_ranges.images_with_alt[1]))))
        ELSE Return(FALSE)))

\* not technical[flag]
FlagMissing(technical, flag) ==
    Bind(Subscript(technical, flag), LAMBDA value : Return(~Truthy(value)))

\* the f-string of a length rule: its literal parts and the values it formats
LengthMessage(what, length, name) ==
    <<what, length.r, " chars) should be between ", optimal_ranges[name][1], " and ",
      optimal_ranges[name][2], " characters">>

\* the f-string of the image rule, the percentage formatted with .1f
AltTextMessage(images) ==
    <<"Only ", Round1(RMul(RDiv(images.d.images_with_alt.r, images.d.total_images.r), Hundred)),
      "% of images have alt text. Aim for at least ", optimal_ranges.images_with_alt[1], "%">>

\* _generate_recommendations dropping a title entry that a meta description entry follows
_generate_recommendations_onehigh(seo_analysis) ==
    Bind(Subscript(seo_analysis, "meta_tags"), LAMBDA meta :
    Bind(MetaLength(meta, "title"), LAMBDA title_length :
    Bind(OutsideRange(title_length, "title_length"), LAMBDA title_off :
    Bind(MetaLength(meta, "meta_description"), LAMBDA meta_desc_length :
    Bind(OutsideRange(meta_desc_length, "meta_description_length"), LAMBDA meta_desc_off :
        Return((IF title_off /\ ~meta_desc_off
                THEN <<Recommendation("title", "high",
                           LengthMessage("Title length (", title_length, "title_length"))>>
                ELSE <<>>)
            \o (IF meta_desc_off
                THEN <<Recommendation("meta_description", "high",
                           LengthMessage("Meta description length (", meta_desc_length,
                                         "meta_description_length"))>>
                ELSE <<>>)))))))

_generate_recommendations(seo_analysis) ==
    Bind(Subscript(seo_analysis, "meta_tags"), LAMBDA meta :
    Bind(MetaLength(meta, "title"), LAMBDA title_length :
    Bind(OutsideRange(title_length, "title_length"), LAMBDA title_off :
    Bind(MetaLength(meta, "meta_description"), LAMBDA meta_desc_length :
    Bind(OutsideRange(meta_desc_length, "meta_description_length"), LAMBDA meta_desc_off :
    Bind(Subscript(seo_analysis, "image_analysis"), LAMBDA images :
    Bind(ImagesBelowFloor(images), LAMBDA images_off :
    Bind(Subscript(seo_analysis, "technical_seo"), LAMBDA technical :
    Bind(FlagMissing(technical, "has_viewport"), LAMBDA viewport_off :
    Bind(FlagMissing(technical, "has_structured_data"), LAMBDA structured_off :
        Return((IF title_off
                THEN <<Recommendation("title", "high",
                           LengthMessage("Title length (", title_length, "title_length"))>>
                ELSE <<>>)
            \o (IF meta_desc_off
                THEN <<Recommendation("meta_description", "high",
                           LengthMessage("Meta description length (", meta_desc_length,
                                         "meta_description_length"))>>
                ELSE <<>>)
            \o (IF images_off
                THEN <<Recommendation("images", "medium", AltTextMessage(images))>> ELSE <<>>)
            \o (IF viewport_off
                THEN <<Recommendation("technical", "high",
                           <<"Add viewport meta tag for mobile optimization">>)>>
                ELSE <<>>)
            \o (IF structured_off
                THEN <<Recommendation("technical", "medium",
                           <<"Consider adding structured data for better search results">>)>>
                ELSE <<>>))))))))))))

\* the first seven entries of the dict compute_metrics builds, in order
SubAnalyses(seo_analysis) ==
    Bind(_analyze_content_quality(seo_analysis), LAMBDA content_quality :
    Bind(_compute_technical_score100(seo_analysis), LAMBDA technical_score :
    Bind(_analyze_keyword_optimization(seo_analysis), LAMBDA keyword_optimization :
    Bind(_analyze_link_quality(seo_analysis), LAMBDA link_quality :
    Bind(_analyze_image_optimization(seo_analysis), LAMBDA image_optimization :
    Bind(_analyze_readability(seo_analysis), LAMBDA readability :
    Bind(_generate_recommendations(seo_analysis), LAMBDA recommendations :
        Return([content_quality |-> content_quality,
                technical_score |-> technical_score,
                keyword_optimization |-> keyword_optimization,
                link_quality |-> link_quality,
                image_optimization |-> image_optimization,
                readability |-> readability,
                recommendations |-> recommendations]))))))))

\* the weights of _compute_overall_score of the 0..100 module
weights100 ==
    [content_quality |-> Rat(30, 100), technical_score |-> Rat(25, 100),
     keyword_optimization |-> Rat(20, 100), link_quality |-> Rat(15, 100),
     image_optimization |-> Rat(10, 100)]

\* round(r, 2): the nearest hundredth, a tie to the even one
Round2(r) ==
    LET n == r[1] * 100
        q == n \div r[2]
        twice == 2 * (n - q * r[2])
    IN  Rat(IF twice < r[2] THEN q
            ELSE IF twice > r[2] THEN q + 1
            ELSE IF q % 2 = 0 THEN q ELSE q + 1, 100)

\* what _compute_overall_score does with the metrics compute_metrics returned
ScoreOfMetrics(metrics) ==
    LET usage == metrics.keyword_optimization.keyword_usage
    IN  IF DOMAIN usage = {}
        THEN Raise("ZeroDivisionError")
        ELSE Return(Round2(
                RAdd(RAdd(RAdd(RAdd(
                    RMul(metrics.content_quality.text_html_ratio.score,
                         weights100.content_quality),
                    RMul(metrics.technical_score.technical_score,
                         weights100.technical_score)),
                    RMul(RDiv(RSumOver([w \in DOMAIN usage |-> usage[w].score], DOMAIN usage),
                              Whole(Cardinality(DOMAIN usage))),
                         weights100.keyword_optimization)),
                    RMul(RDiv(RAdd(metrics.link_quality.internal_links.score,
                                   metrics.link_quality.external_links.score), Whole(2)),
                         weights100.link_quality)),
                    RMul(metrics.image_optimization.alt_text.score,
                         weights100.image_optimization))))

Frame(fn, pc) == [fn |-> fn, pc |-> pc]
Top == agg_stack[Len(agg_stack)]
Pop == SubSeq(agg_stack, 1, Len(agg_stack) - 1)
SetTopPc(pc) == [agg_stack EXCEPT ![Len(agg_stack)] = Frame(Top.fn, pc)]

\* an exception leaves every frame: the module has no handler
Propagate(o) ==
    /\ agg_stack' = <<>>
    /\ agg_ret' = Pending
    /\ agg_outcome' = o

\* the top frame calls fn and waits for it
Call(fn) ==
    IF Len(agg_stack) >= RecursionLimit
    THEN Propagate(Raise("RecursionError"))
    ELSE /\ agg_stack' = Append(SetTopPc("await"), Frame(fn, "body"))
         /\ UNCHANGED <<agg_ret, agg_outcome>>

\* the top frame returns v to the frame below, or to the caller
ReturnValue(v) ==
    /\ agg_stack' = Pop
    /\ IF Len(agg_stack) = 1
       THEN agg_outcome' = Return(v) /\ agg_ret' = Pending
       ELSE agg_ret' = Return(v) /\ UNCHANGED agg_outcome

\* the caller runs compute_metrics(agg_analysis)
CallComputeMetrics100 ==
    /\ agg_stack = <<>>
    /\ agg_outcome = Pending
    /\ agg_stack' = <<Frame("compute_metrics", "body")>>
    /\ UNCHANGED <<agg_analysis, agg_ret, agg_outcome, restAggregate>>

\* compute_metrics of the 0..100 module: the seven sub-analyses, then the call
\* of _compute_overall_score, whose result completes the report
compute_metrics100 ==
    /\ agg_stack # <<>>
    /\ Top.fn = "compute_metrics"
    /\ LET parts == SubAnalyses(agg_analysis)
       IN  IF Raised(parts) THEN Propagate(parts)
           ELSE IF Top.pc = "body" THEN Call("_compute_overall_score")
           ELSE ReturnValue([k \in DOMAIN parts.val \cup {"overall_score"} |->
                                IF k = "overall_score" THEN agg_ret.val ELSE parts.val[k]])
    /\ UNCHANGED <<agg_analysis, restAggregate>>

\* _compute_overall_score of the 0..100 module: the call of compute_metrics,
\* then the weighted sum over the metrics it returned
_compute_overall_score100 ==
    /\ agg_stack # <<>>
    /\ Top.fn = "_compute_overall_score"
    /\ IF Top.pc = "body" THEN Call("compute_metrics")
       ELSE LET score == ScoreOfMetrics(agg_ret.val)
            IN  IF Raised(score) THEN Propagate(score) ELSE ReturnValue(score.val)
    /\ UNCHANGED <<agg_analysis, restAggregate>>

---------------------------------------------------------------------------
(* ReadabilityAnalyzer of src/readability.py *)

\* ReadabilityAnalyzer.__init__
ideal_sentence_length == 14
max_sentence_length == 20
complex_word_threshold == 3
complex_word_percentage_threshold == 15

\* the entries of the CMU pronouncing dictionary for the words of the model's
\* texts: <<word, first pronunciation>>, a phoneme being <<name>> or
\* <<name, stress digit>>
cmudict ==
    <<<<<<"t", "h", "i", "s">>,
        <<<<"DH">>, <<"IH", "1">>, <<"S">>>>>>,
      <<<<"i", "s">>,
        <<<<"IH", "1">>, <<"Z">>>>>>,
      <<<<"a">>,
        <<<<"AH", "0">>>>>>,
      <<<<"t", "e", "s", "t">>,
        <<<<"T">>, <<"EH", "1">>, <<"S">>, <<"T">>>>>>,
      <<<<"s", "i", "m", "p", "l", "e">>,
        <<<<"S">>, <<"IH", "1">>, <<"M">>, <<"P">>, <<"AH", "0">>, <<"L">>>>>>,
      <<<<"i", "t">>,
        <<<<"IH", "1">>, <<"T">>>>>>,
      <<<<"h", "a", "s">>,
        <<<<"HH">>, <<"AE", "1">>, <<"Z">>>>>>,
      <<<<"t", "w", "o">>,
        <<<<"T">>, <<"UW", "1">>>>>>,
      <<<<"s", "e", "n", "t", "e", "n", "c", "e", "s">>,
        <<<<"S">>, <<"EH", "1">>, <<"N">>, <<"T">>, <<"AH", "0">>, <<"N">>, <<"S">>, <<"AH", "0">>, <<"Z">>>>>>,
      <<<<"a", "n", "y">>,
        <<<<"EH", "1">>, <<"N">>, <<"IY", "0">>>>>>,
      <<<<"a", "r", "e", "a">>,
        <<<<"EH", "1">>, <<"R">>, <<"IY", "0">>, <<"AH", "0">>>>>>,
      <<<<"i", "m", "p", "l", "e", "m", "e", "n", "t", "a", "t", "i", "o", "n">>,
        <<<<"IH", "2">>, <<"M">>, <<"P">>, <<"L">>, <<"AH", "0">>, <<"M">>, <<"EH", "0">>, <<"N">>, <<"T">>, <<"EY", "1">>, <<"SH">>, <<"AH", "0">>, <<"N">>>>>>>>

\* re.sub(r'<[^>]+>', ' ', q), read from position i
RECURSIVE StripTags(_, _)
StripTags(q, i) ==
    IF i > Len(q) THEN <<>>
    ELSE LET closing == {j \in i + 1 .. Len(q) : q[j] = ">"}
             first == CHOOSE j \in closing : \A k \in closing : j <= k
         IN  IF q[i] = "<" /\ closing # {} /\ first >= i + 2
             THEN <<" ">> \o StripTags(q, first + 1)
             ELSE <<q[i]>> \o StripTags(q, i + 1)

\* re.sub(r'\s+', ' ', q), read from position i
RECURSIVE CollapseSpace(_, _)
CollapseSpace(q, i) ==
    IF i > Len(q) THEN <<>>
    ELSE IF q[i] \in Whitespace
         THEN IF i > 1 /\ q[i - 1] \in Whitespace
              THEN CollapseSpace(q, i + 1)
              ELSE <<" ">> \o CollapseSpace(q, i + 1)
         ELSE <<q[i]>> \o CollapseSpace(q, i + 1)

\* the characters re.sub(r'[^a-zA-Z0-9\s.,!?]', '', q) keeps
KeptChars ==
    Range(UpperCase) \cup Range(LowerCase) \cup Digits \cup Whitespace \cup {".", ",", "!", "?"}

\* str.strip()
Strip(q) ==
    LET solid == {i \in DOMAIN q : q[i] \notin Whitespace}
    IN  IF solid = {} THEN <<>>
        ELSE SubSeq(q, CHOOSE i \in solid : \A k \in solid : i <= k,
                       CHOOSE j \in solid : \A k \in solid : k <= j)

\* ReadabilityAnalyzer._clean_text on the characters of a str
_clean_text(q) ==
    LET IsKept(c) == c \in KeptChars
    IN  Strip(SelectSeq(CollapseSpace(StripTags(q, 1), 1), IsKept))

\* the least element of a non-empty set of integers
Least(S) == CHOOSE x \in S : \A y \in S : x <= y

\* nltk.sent_tokenize on a text of plain words, read from position start: a
\* sentence ends with a run of '.', '!' or '?' that whitespace or the end of
\* the text follows
RECURSIVE sent_tokenize_from(_, _)
sent_tokenize_from(q, start) ==
    LET solid == {i \in start .. Len(q) : q[i] \notin Whitespace}
    IN  IF solid = {} THEN <<>>
        ELSE LET from == Least(solid)
                 ends == {i \in from .. Len(q) :
                             /\ q[i] \in SentenceEnd
                             /\ (i = Len(q) \/ q[i + 1] \in Whitespace)}
             IN  IF ends = {} THEN <<SubSeq(q, from, Len(q))>>
                 ELSE <<SubSeq(q, from, Least(ends))>>
                          \o sent_tokenize_from(q, Least(ends) + 1)

sent_tokenize(q) == sent_tokenize_from(q, 1)

\* the Treebank tokens of one sentence, read from position start: the
\* whitespace-separated words, with every ',' (not before a digit), '!' and
\* '?' and the final '.' of the sentence as tokens of their own
RECURSIVE TreebankTokens(_, _)
TreebankTokens(q, start) ==
    LET IsPunctuation(i) ==
            \/ q[i] \in {"!", "?"}
            \/ q[i] = "," /\ ~(i < Len(q) /\ q[i + 1] \in Digits)
            \/ q[i] = "." /\ i = Len(q)
        solid == {i \in start .. Len(q) : q[i] \notin Whitespace}
    IN  IF solid = {} THEN <<>>
        ELSE LET from == Least(solid)
                 stops == {j \in from + 1 .. Len(q) : q[j] \in Whitespace \/ IsPunctuation(j)}
                 to == IF IsPunctuation(from) THEN from
                       ELSE IF stops = {} THEN Len(q) ELSE Least(stops) - 1
             IN  <<SubSeq(q, from, to)>> \o TreebankTokens(q, to + 1)

RECURSIVE TokensOfSentences(_, _)
TokensOfSentences(sentences, i) ==
    IF i > Len(sentences) THEN <<>>
    ELSE TreebankTokens(sentences[i], 1) \o TokensOfSentences(sentences, i + 1)

\* nltk.word_tokenize: the Treebank tokens of each sentence of the text
word_tokenize(q) == TokensOfSentences(sent_tokenize(q), 1)

\* ReadabilityAnalyzer._count_syllables(word): the stressed phonemes of the
\* dictionary entry, or the vowel-group count when the word has no entry
_count_syllables_cmu(word) ==
    LET w == Lower(word)
        found == {i \in DOMAIN cmudict : cmudict[i][1] = w}
    IN  IF found # {}
        THEN LET phones == cmudict[CHOOSE i \in found : TRUE][2]
             IN  Cardinality({i \in DOMAIN phones : phones[i][Len(phones[i])] \in Digits})
        ELSE SyllablesAfterWord(0, w)

RECURSIVE TotalSyllables(_, _)
TotalSyllables(words, i) ==
    IF i > Len(words) THEN 0
    ELSE _count_syllables_cmu(words[i]) + TotalSyllables(words, i + 1)

\* the level ReadabilityAnalyzer._calculate_flesch_score gives a score
FleschLevel(score) ==
    IF RLe(Whole(90), score) THEN "Very Easy"
    ELSE IF RLe(Whole(80), score) THEN "Easy"
    ELSE IF RLe(Whole(70), score) THEN "Fairly Easy"
    ELSE IF RLe(Whole(60), score) THEN "Standard"
    ELSE IF RLe(Whole(50), score) THEN "Fairly Difficult"
    ELSE IF RLe(Whole(30), score) THEN "Difficult"
    ELSE "Very Difficult"

\* _calculate_flesch_score without its guard, an empty list counting as one entry
_calculate_flesch_score_noguard(sentences, words) ==
    LET score == RSub(RSub(Rat(206835, 1000), Rat(1015, 1000)), Rat(846, 10))
    IN  [score |-> IF sentences = <<>> \/ words = <<>> THEN score ELSE Zero,
         explanation |-> <<"Flesch Reading Ease", Round1(score), FleschLevel(score)>>,
         is_optimal |-> FALSE]

\* ReadabilityAnalyzer._calculate_flesch_score
_calculate_flesch_score(sentences, words) ==
    IF sentences = <<>> \/ words = <<>>
    THEN [score |-> Zero, explanation |-> <<"No text content to analyze">>,
          is_optimal |-> FALSE]
    ELSE LET avg_sentence_length == Rat(Len(words), Len(sentences))
             avg_syllables == Rat(TotalSyllables(words, 1), Len(words))
             score == RSub(RSub(Rat(206835, 1000), RMul(Rat(1015, 1000), avg_sentence_length)),
                           RMul(Rat(846, 10), avg_syllables))
             level == FleschLevel(score)
         IN  [score |-> score,
              level |-> level,
              avg_sentence_length |-> avg_sentence_length,
              avg_syllables_per_word |-> avg_syllables,
              is_optimal |-> RLe(Whole(60), score) /\ RLe(score, Whole(80)),
              explanation |-> <<"Flesch Reading Ease", Round1(score), level>>]

\* ReadabilityAnalyzer._get_sentence_length_explanation
_get_sentence_length_explanation(avg_length, optimal_percentage) ==
    IF RLe(avg_length, Whole(ideal_sentence_length))
    THEN <<"Optimal average sentence length", Round1(avg_length)>>
    ELSE IF RLe(avg_length, Whole(max_sentence_length))
         THEN <<"Acceptable average sentence length", Round1(avg_length)>>
         ELSE <<"Long average sentence length", Round1(avg_length)>>

\* ReadabilityAnalyzer._calculate_avg_sentence_length
_calculate_avg_sentence_length(sentences, words) ==
    IF sentences = <<>>
    THEN [score |-> Zero, explanation |-> <<"No sentences found">>, is_optimal |-> FALSE]
    ELSE LET avg_length == Rat(Len(words), Len(sentences))
             optimal_sentences ==
                 Cardinality({i \in DOMAIN sentences :
                     Len(word_tokenize(sentences[i])) <= ideal_sentence_length})
             optimal_percentage == RMul(Rat(optimal_sentences, Len(sentences)), Hundred)
         IN  [avg_length |-> avg_length,
              optimal_percentage |-> optimal_percentage,
              is_optimal |-> RLe(avg_length, Whole(ideal_sentence_length)),
              explanation |-> _get_sentence_length_explanation(avg_length, optimal_percentage)]

\* ReadabilityAnalyzer._get_lexical_complexity_explanation
_get_lexical_complexity_explanation(complex_percentage) ==
    IF RLe(complex_percentage, Whole(complex_word_percentage_threshold))
    THEN <<"Good lexical complexity", Round1(complex_percentage)>>
    ELSE <<"High lexical complexity", Round1(complex_percentage)>>

\* ReadabilityAnalyzer._calculate_lexical_complexity
_calculate_lexical_complexity(words) ==
    IF words = <<>>
    THEN [score |-> Zero, explanation |-> <<"No words found">>, is_optimal |-> FALSE]
    ELSE LET complex_words ==
                 Cardinality({i \in DOMAIN words :
                     _count_syllables_cmu(words[i]) >= complex_word_threshold})
             complex_percentage == RMul(Rat(complex_words, Len(words)), Hundred)
         IN  [complex_words |-> complex_words,
              complex_percentage |-> complex_percentage,
              is_optimal |->
                  RLe(complex_percentage, Whole(complex_word_percentage_threshold)),
              explanation |-> _get_lexical_complexity_explanation(complex_percentage)]

\* ReadabilityAnalyzer._get_overall_score_explanation
_get_overall_score_explanation(score) ==
    IF RLe(Rat(8, 10), score) THEN "Excellent readability"
    ELSE IF RLe(Rat(6, 10), score) THEN "Good readability"
    ELSE IF RLe(Rat(4, 10), score) THEN "Fair readability"
    ELSE "Poor readability"

\* the weights of ReadabilityAnalyzer._compute_overall_score
readability_weights ==
    [flesch |-> Rat(4, 10), sentence_length |-> Rat(3, 10), lexical |-> Rat(3, 10)]

\* 1.0 if result["is_optimal"] else 0.0
OptimalScoreOrNothing(result) == IF result.is_optimal THEN One ELSE Zero

\* 1.0 if result["is_optimal"] else 0.5
OptimalScore(result) == IF result.is_optimal THEN One ELSE Rat(1, 2)

\* ReadabilityAnalyzer._compute_overall_score
_compute_overall_score_readability(flesch, sentence_length, lexical) ==
    LET flesch_score == OptimalScore(flesch)
        sentence_score == OptimalScore(sentence_length)
        lexical_score == OptimalScore(lexical)
        overall_score ==
            RAdd(RAdd(RMul(flesch_score, readability_weights.flesch),
                      RMul(sentence_score, readability_weights.sentence_length)),
                 RMul(lexical_score, readability_weights.lexical))
    IN  [score |-> overall_score,
         components |-> [flesch |-> flesch_score, sentence_length |-> sentence_score,
                         lexical |-> lexical_score],
         explanation |-> _get_overall_score_explanation(overall_score)]

\* ReadabilityAnalyzer.analyze_readability
analyze_readability(text) ==
    IF text.t # "str" THEN Raise("TypeError")
    ELSE LET cleaned_text == _clean_text(text.s)
             sentences == sent_tokenize(cleaned_text)
             words == word_tokenize(cleaned_text)
             flesch_score == _calculate_flesch_score(sentences, words)
             avg_sentence_length == _calculate_avg_sentence_length(sentences, words)
             lexical_complexity == _calculate_lexical_complexity(words)
         IN  Return([flesch_reading_ease |-> flesch_score,
                     average_sentence_length |-> avg_sentence_length,
                     lexical_complexity |-> lexical_complexity,
                     overall_score |->
                         _compute_overall_score_readability(
                             flesch_score, avg_sentence_length, lexical_complexity)])

---------------------------------------------------------------------------
(* CrawlabilityAnalyzer of src/crawlability.py *)

\* the weights of CrawlabilityAnalyzer._compute_overall_score
crawlability_weights ==
    [indexability |-> Rat(30, 100), sitemap |-> Rat(20, 100), text_ratio |-> Rat(20, 100),
     load_time |-> Rat(15, 100), llm_bot |-> Rat(15, 100)]

\* the text q holds sub from index i on
HoldsAt(q, sub, i) ==
    /\ i >= 1
    /\ i + Len(sub) - 1 <= Len(q)
    /\ \A j \in DOMAIN sub : q[i + j - 1] = sub[j]

\* sub in q
Contains(q, sub) == \E i \in 1 .. Len(q) + 1 : HoldsAt(q, sub, i)

\* the digits in their order, for int
DecimalDigits == <<"0", "1", "2", "3", "4", "5", "6", "7", "8", "9">>
IsDigit(c) == c \in Digits

\* the index after a greedy \s* from index i
SkipSpace(q, i) ==
    Least({j \in i .. Len(q) + 1 : j = Len(q) + 1 \/ q[j] \notin Whitespace})

\* the index after a greedy .* from index i: . matches all but the newline
SkipLine(q, i) ==
    Least({j \in i .. Len(q) + 1 : j = Len(q) + 1 \/ q[j] = "\n"})

\* the index after a greedy \d* from index i
SkipDigits(q, i) ==
    Least({j \in i .. Len(q) + 1 : j = Len(q) + 1 \/ ~IsDigit(q[j])})

\* int of a text of digits
RECURSIVE int(_)
int(digits) ==
    IF digits = <<>> THEN 0
    ELSE 10 * int(SubSeq(digits, 1, Len(digits) - 1))
         + (CHOOSE k \in DOMAIN DecimalDigits : DecimalDigits[k] = digits[Len(digits)]) - 1

UserAgentField == Lower(<<"U", "s", "e", "r", "-", "a", "g", "e", "n", "t", ":">>)
DisallowField == <<"D", "i", "s", "a", "l", "l", "o", "w", ":">>
CrawlDelayField == <<"C", "r", "a", "w", "l", "-", "d", "e", "l", "a", "y", ":">>

\* SectionSearch with the match extended to the end of the text
SectionSearch_toend(robots_content, user_agent) ==
    LET folded == Lower(robots_content)
        n == Len(robots_content)
        AfterAgent(i) == SkipSpace(robots_content, i + Len(UserAgentField)) + Len(user_agent)
        starts == {i \in 1 .. n :
                      /\ HoldsAt(folded, UserAgentField, i)
                      /\ HoldsAt(folded, Lower(user_agent),
                                 SkipSpace(robots_content, i + Len(UserAgentField)))}
    IN  IF starts = {} THEN [matched |-> FALSE]
        ELSE LET start == Least(starts)
                 stop == n + 1
             IN  [matched |-> TRUE, group |-> SubSeq(robots_content, start, stop - 1)]

\* re.search(rf"(?i)User-agent:\s*{re.escape(user_agent)}.*?(?=User-agent:|$)",
\* robots_content, re.DOTALL): the text of the leftmost match, lazily extended
\* to the next "User-agent:" in any case, to the end, or to a last newline
SectionSearch(robots_content, user_agent) ==
    LET folded == Lower(robots_content)
        n == Len(robots_content)
        AfterAgent(i) == SkipSpace(robots_content, i + Len(UserAgentField)) + Len(user_agent)
        starts == {i \in 1 .. n :
                      /\ HoldsAt(folded, UserAgentField, i)
                      /\ HoldsAt(folded, Lower(user_agent),
                                 SkipSpace(robots_content, i + Len(UserAgentField)))}
    IN  IF starts = {} THEN [matched |-> FALSE]
        ELSE LET start == Least(starts)
                 stop == Least({j \in AfterAgent(start) .. n + 1 :
                                   \/ HoldsAt(folded, UserAgentField, j)
                                   \/ j = n + 1
                                   \/ (j = n /\ robots_content[n] = "\n")})
             IN  [matched |-> TRUE, group |-> SubSeq(robots_content, start, stop - 1)]

\* re.findall(r"Disallow:\s*(.*)", section_text) from index pos on: after each
\* "Disallow:" the white space, newlines included, is skipped and the rest of
\* the line reached is the group
RECURSIVE FindDisallows(_, _)
FindDisallows(section_text, pos) ==
    LET starts == {i \in pos .. Len(section_text) : HoldsAt(section_text, DisallowField, i)}
    IN  IF starts = {} THEN <<>>
        ELSE LET from == SkipSpace(section_text, Least(starts) + Len(DisallowField))
                 to == SkipLine(section_text, from)
             IN  <<SubSeq(section_text, from, to - 1)>> \o FindDisallows(section_text, to)

\* re.search(r"Crawl-delay:\s*(\d+)", section_text): the digits of the leftmost match
CrawlDelaySearch(section_text) ==
    LET DigitsFrom(i) == SkipSpace(section_text, i + Len(CrawlDelayField))
        starts == {i \in 1 .. Len(section_text) :
                      /\ HoldsAt(section_text, CrawlDelayField, i)
                      /\ DigitsFrom(i) <= Len(section_text)
                      /\ IsDigit(section_text[DigitsFrom(i)])}
    IN  IF starts = {} THEN [matched |-> FALSE]
        ELSE LET from == DigitsFrom(Least(starts))
             IN  [matched |-> TRUE,
                  group |-> SubSeq(section_text, from, SkipDigits(section_text, from) - 1)]

\* the table of the LLM bots, in the order of the dictionary
llm_bots ==
    <<
      <<"GPTBot",
        [user_agent |-> Text(<<"G", "P", "T", "B", "o", "t">>),
         purpose |-> "Crawls to improve OpenAI models (e.g., ChatGPT)",
         company |-> "OpenAI"]>>,
      <<"ClaudeBot",
        [user_agent |-> List(<<Text(<<"C", "l", "a", "u", "d", "e", "B", "o", "t">>), Text(<<"a", "n", "t", "h", "r", "o", "p", "i", "c", "-", "a", "i">>)>>),
         purpose |-> "Crawls for Claude model training",
         company |-> "Anthropic"]>>,
      <<"Google-Extended",
        [user_agent |-> Text(<<"G", "o", "o", "g", "l", "e", "-", "E", "x", "t", "e", "n", "d", "e", "d">>),
         purpose |-> "Controls use of content in Google's AI models (SGE, Gemini)",
         company |-> "Google"]>>,
      <<"CCBot",
        [user_agent |-> Text(<<"C", "C", "B", "o", "t">>),
         purpose |-> "Feeds large public datasets (used by many LLMs)",
         company |-> "Common Crawl"]>>,
      <<"PerplexityBot",
        [user_agent |-> Text(<<"P", "e", "r", "p", "l", "e", "x", "i", "t", "y", "B", "o", "t">>),
         purpose |-> "Real-time AI search engine crawler",
         company |-> "Perplexity AI"]>>,
      <<"Amazonbot",
        [user_agent |-> Text(<<"A", "m", "a", "z", "o", "n", "b", "o", "t">>),
         purpose |-> "May power Alexa and Amazon's AI training datasets",
         company |-> "Amazon"]>>,
      <<"YouBot",
        [user_agent |-> Text(<<"Y", "o", "u", "B", "o", "t">>),
         purpose |-> "AI-powered search engine with LLM-like summaries",
         company |-> "You.com"]>>,
      <<"Neevabot",
        [user_agent |-> Text(<<"N", "e", "e", "v", "a", "b", "o", "t">>),
         purpose |-> "Former AI search engine",
         company |-> "NeevaAI"]>>,
      <<"MetaBot",
        [user_agent |-> List(<<Text(<<"f", "a", "c", "e", "b", "o", "o", "k", "e", "x", "t", "e", "r", "n", "a", "l", "h", "i", "t">>), Text(<<"M", "e", "t", "a", "B", "o", "t">>)>>),
         purpose |-> "Meta's AI and social graph crawling",
         company |-> "Meta"]>>
    >>

\* the names of the bots of the table
BotNames == {llm_bots[k][1] : k \in DOMAIN llm_bots}
\* llm_bots[bot_name]
BotInfo(bot_name) == llm_bots[CHOOSE k \in DOMAIN llm_bots : llm_bots[k][1] = bot_name][2]

\* bot_info['user_agent'] if isinstance(bot_info['user_agent'], list) else [bot_info['user_agent']]
UserAgents(bot_info) ==
    IF bot_info.user_agent.t = "list"
    THEN [k \in DOMAIN bot_info.user_agent.l |-> bot_info.user_agent.l[k].s]
    ELSE <<bot_info.user_agent.s>>

\* ", ".join(paths) of texts
RECURSIVE JoinTexts(_)
JoinTexts(paths) ==
    IF paths = <<>> THEN <<>>
    ELSE IF Len(paths) = 1 THEN paths[1]
    ELSE paths[1] \o <<",", " ">> \o JoinTexts(Tail(paths))

_generate_bot_explanation(directives, bot_info) ==
    IF directives.user_agents_found = <<>>
    THEN <<"No specific directives found for ", bot_info.company, " bots">>
    ELSE IF ~directives.allowed
    THEN <<bot_info.company, " bots are blocked from: ", JoinTexts(directives.disallowed_paths)>>
    ELSE IF Truthy(directives.crawl_delay)
    THEN <<bot_info.company, " bots are allowed with ", directives.crawl_delay, "s crawl delay">>
    ELSE <<bot_info.company, " bots are allowed to crawl">>

\* the directives of _analyze_bot_directive before its loop
NoDirectives ==
    [allowed |-> TRUE, disallowed_paths |-> <<>>, crawl_delay |-> PyNone,
     user_agents_found |-> <<>>, directives_found |-> <<>>]

\* CheckUserAgent keeping only the paths that are not empty
CheckUserAgent_pathsonly(directives, robots_content, user_agent) ==
    IF ~Contains(Lower(robots_content), Lower(user_agent)) THEN directives
    ELSE LET found == [directives EXCEPT !.user_agents_found = Append(@, user_agent)]
             section == SectionSearch(robots_content, user_agent)
         IN  IF ~section.matched THEN found
             ELSE LET section_text == section.group
                      disallows == FindDisallows(section_text, 1)
                      crawl_delay == CrawlDelaySearch(section_text)
                  IN  [found EXCEPT
                          !.directives_found = Append(@, section_text),
                          !.disallowed_paths = @ \o SelectSeq(disallows, LAMBDA path : path # <<>>),
                          !.allowed = IF disallows # <<>> THEN FALSE ELSE @,
                          !.crawl_delay =
                              IF crawl_delay.matched THEN Num(Whole(int(crawl_delay.group)))
                              ELSE @]

\* one turn of the loop of _analyze_bot_directive
CheckUserAgent(directives, robots_content, user_agent) ==
    IF ~Contains(Lower(robots_content), Lower(user_agent)) THEN directives
    ELSE LET found == [directives EXCEPT !.user_agents_found = Append(@, user_agent)]
             section == SectionSearch(robots_content, user_agent)
         IN  IF ~section.matched THEN found
             ELSE LET section_text == section.group
                      disallows == FindDisallows(section_text, 1)
                      crawl_delay == CrawlDelaySearch(section_text)
                  IN  [found EXCEPT
                          !.directives_found = Append(@, section_text),
                          !.disallowed_paths = @ \o disallows,
                          !.allowed = IF disallows # <<>> THEN FALSE ELSE @,
                          !.crawl_delay =
                              IF crawl_delay.matched THEN Num(Whole(int(crawl_delay.group)))
                              ELSE @]

\* the loop of _analyze_bot_directive over user_agents
RECURSIVE CheckUserAgents(_, _, _)
CheckUserAgents(directives, robots_content, user_agents) ==
    IF user_agents = <<>> THEN directives
    ELSE CheckUserAgents(CheckUserAgent(directives, robots_content, Head(user_agents)),
                         robots_content, Tail(user_agents))

\* the result of _analyze_bot_directive from the directives it has gathered
BotDirective(directives, bot_info) ==
    [bot_name |-> IF bot_info.user_agent.t = "list" THEN bot_info.user_agent.l[1].s
                  ELSE bot_info.user_agent.s,
     company |-> bot_info.company,
     purpose |-> bot_info.purpose,
     is_allowed |-> directives.allowed,
     disallowed_paths |-> directives.disallowed_paths,
     crawl_delay |-> directives.crawl_delay,
     user_agents_found |-> directives.user_agents_found,
     explanation |-> _generate_bot_explanation(directives, bot_info)]

\* _analyze_bot_directive falling back to the section of "User-agent: *" when
\* no user agent of the bot is found
_analyze_bot_directive_wildcard(robots_content, user_agents, bot_info) ==
    LET directives == CheckUserAgents(NoDirectives, robots_content, user_agents)
    IN  BotDirective(IF directives.user_agents_found = <<>>
                     THEN [CheckUserAgent(NoDirectives, robots_content, <<"*">>)
                              EXCEPT !.user_agents_found = <<>>]
                     ELSE directives, bot_info)

_analyze_bot_directive(robots_content, user_agents, bot_info) ==
    BotDirective(CheckUserAgents(NoDirectives, robots_content, user_agents), bot_info)

\* sep.join(items), each item and the separator one piece of the text
RECURSIVE Join(_, _)
Join(sep, items) ==
    IF items = <<>> THEN <<>>
    ELSE IF Len(items) = 1 THEN <<items[1]>>
    ELSE <<items[1], sep>> \o Join(sep, Tail(items))

\* the loop of _generate_llm_bot_summary: <<allowed_bots, blocked_bots>>
RECURSIVE SortBots(_, _, _)
SortBots(bot_directives, allowed_bots, blocked_bots) ==
    IF bot_directives = <<>> THEN <<allowed_bots, blocked_bots>>
    ELSE LET directive == Head(bot_directives)[2]
         IN  IF directive.is_allowed
             THEN SortBots(Tail(bot_directives), Append(allowed_bots, directive.company),
                           blocked_bots)
             ELSE SortBots(Tail(bot_directives), allowed_bots,
                           Append(blocked_bots, directive.company))

\* _generate_llm_bot_summary listing every bot as allowed
_generate_llm_bot_summary_allowed(bot_directives) ==
    LET allowed_bots == [k \in DOMAIN bot_directives |-> bot_directives[k][2].company]
    IN  IF allowed_bots # <<>> THEN <<"Allowed: ">> \o Join(", ", allowed_bots)
        ELSE <<"No LLM bot directives found">>

\* the summary, as the pieces of its text: bot_directives is the mapping in
\* its order, a sequence of <<bot_name, directive>>
_generate_llm_bot_summary(bot_directives) ==
    LET sorted == SortBots(bot_directives, <<>>, <<>>)
        allowed_bots == sorted[1]
        blocked_bots == sorted[2]
        allowed_part == IF allowed_bots # <<>>
                        THEN <<<<"Allowed: ">> \o Join(", ", allowed_bots)>> ELSE <<>>
        blocked_part == IF blocked_bots # <<>>
                        THEN <<<<"Blocked: ">> \o Join(", ", blocked_bots)>> ELSE <<>>
        summary == allowed_part \o blocked_part
    IN  IF summary = <<>> THEN <<"No LLM bot directives found">>
        ELSE IF Len(summary) = 1 THEN summary[1]
        ELSE summary[1] \o <<" | ">> \o summary[2]

\* the loop of _analyze_llm_bot_directives over llm_bots, for a robots.txt
\* answered with status 200
AllBotDirectives(robots_content) ==
    [k \in DOMAIN llm_bots |->
        <<llm_bots[k][1],
          _analyze_bot_directive(robots_content, UserAgents(llm_bots[k][2]), llm_bots[k][2])>>]

---------------------------------------------------------------------------
(* AIReadabilityAnalyzer of src/ai_readability.py *)

title_ideal_min == 50
title_ideal_max == 60
meta_desc_max == 155
content_word_min == 300

\* len(x)
PyLen(x) ==
    CASE x.t = "str" -> Return(Len(x.s))
      [] x.t = "list" -> Return(Len(x.l))
      [] x.t = "dict" -> Return(Cardinality(DOMAIN x.d))
      [] OTHER -> Raise("TypeError")

\* len(x.split()): the runs of characters that are not white space
SplitCount(x) ==
    IF x.t # "str" THEN Raise("AttributeError")
    ELSE Return(Cardinality({i \in DOMAIN x.s :
                                /\ x.s[i] \notin Whitespace
                                /\ i = 1 \/ x.s[i - 1] \in Whitespace}))

\* x == n for a number n: never raises, False on other types
EqualsNumber(x, n) == IsNum(x) /\ x.r = Whole(n)

\* analyze_seo_structure with the title flag true for every title of at least
\* title_ideal_min characters
analyze_seo_structure_nomax(seo_analysis) ==
    Bind(Get(seo_analysis, "meta_tags", EmptyDict), LAMBDA meta :
    Bind(Get(seo_analysis, "content_analysis", EmptyDict), LAMBDA content :
    Bind(Get(content, "heading_structure", EmptyDict), LAMBDA headings :
    Bind(Get(meta, "title", EmptyDict), LAMBDA title_tag :
    Bind(Get(title_tag, "content", Text(<<>>)), LAMBDA title :
    Bind(PyLen(title), LAMBDA title_len :
    Bind(Get(meta, "meta_description", EmptyDict), LAMBDA meta_desc_tag :
    Bind(Get(meta_desc_tag, "content", Text(<<>>)), LAMBDA meta_desc :
    Bind(PyLen(meta_desc), LAMBDA meta_desc_len :
    Bind(Get(headings, "h1", Num(Zero)), LAMBDA h1_count :
    Bind(Get(content, "main_content", Text(<<>>)), LAMBDA main_content :
    Bind(SplitCount(main_content), LAMBDA word_count :
        LET title_flag == title_ideal_min <= title_len
            meta_desc_flag == 0 < meta_desc_len /\ meta_desc_len <= meta_desc_max
            h1_flag == EqualsNumber(h1_count, 1)
            content_flag == word_count >= content_word_min
        IN  Return(
            [title_tag_length |->
                 [value |-> title_len, optimal |-> title_flag,
                  explanation |->
                      IF title_flag
                      THEN <<"Optimal", ": Title is concise and clear for AI/search display.">>
                      ELSE <<IF title_len < title_ideal_min THEN "Too short" ELSE "Too long",
                             ": Title may not be optimal for AI/search context.">>],
             meta_description_length |->
                 [value |-> meta_desc_len, optimal |-> meta_desc_flag,
                  explanation |->
                      IF meta_desc_flag
                      THEN <<"Optimal",
                             ": Meta description is present and concise for AI/search snippets.">>
                      ELSE IF meta_desc_len = 0
                      THEN <<"Missing", ": No meta description for AI/search snippet.">>
                      ELSE <<"Too long", ": May be truncated in AI/search results.">>],
             h1_tag_presence |->
                 [value |-> h1_count, optimal |-> h1_flag,
                  explanation |->
                      IF h1_flag
                      THEN <<"Optimal",
                             ": Single H1 tag provides clear main topic for AI parsing.">>
                      ELSE IF EqualsNumber(h1_count, 0)
                      THEN <<"Missing", ": No H1 tag for main topic.">>
                      ELSE <<"Multiple H1 tags", ": Ambiguous main topic for AI.">>],
             content_word_count |->
                 [value |-> word_count, optimal |-> content_flag,
                  explanation |->
                      IF content_flag
                      THEN <<"Optimal",
                             ": Sufficient content for AI to understand and summarize.">>
                      ELSE <<"Too little content",
                             ": May be considered 'thin' by AI/search.">>]])))))))))))))

\* each explanation is its label and the rest of its text, the label being
\* what stands before the colon
analyze_seo_structure(seo_analysis) ==
    Bind(Get(seo_analysis, "meta_tags", EmptyDict), LAMBDA meta :
    Bind(Get(seo_analysis, "content_analysis", EmptyDict), LAMBDA content :
    Bind(Get(content, "heading_structure", EmptyDict), LAMBDA headings :
    Bind(Get(meta, "title", EmptyDict), LAMBDA title_tag :
    Bind(Get(title_tag, "content", Text(<<>>)), LAMBDA title :
    Bind(PyLen(title), LAMBDA title_len :
    Bind(Get(meta, "meta_description", EmptyDict), LAMBDA meta_desc_tag :
    Bind(Get(meta_desc_tag, "content", Text(<<>>)), LAMBDA meta_desc :
    Bind(PyLen(meta_desc), LAMBDA meta_desc_len :
    Bind(Get(headings, "h1", Num(Zero)), LAMBDA h1_count :
    Bind(Get(content, "main_content", Text(<<>>)), LAMBDA main_content :
    Bind(SplitCount(main_content), LAMBDA word_count :
        LET title_flag == title_ideal_min <= title_len /\ title_len <= title_ideal_max
            meta_desc_flag == 0 < meta_desc_len /\ meta_desc_len <= meta_desc_max
            h1_flag == EqualsNumber(h1_count, 1)
            content_flag == word_count >= content_word_min
        IN  Return(
            [title_tag_length |->
                 [value |-> title_len, optimal |-> title_flag,
                  explanation |->
                      IF title_flag
                      THEN <<"Optimal", ": Title is concise and clear for AI/search display.">>
                      ELSE <<IF title_len < title_ideal_min THEN "Too short" ELSE "Too long",
                             ": Title may not be optimal for AI/search context.">>],
             meta_description_length |->
                 [value |-> meta_desc_len, optimal |-> meta_desc_flag,
                  explanation |->
                      IF meta_desc_flag
                      THEN <<"Optimal",
                             ": Meta description is present and concise for AI/search snippets.">>
                      ELSE IF meta_desc_len = 0
                      THEN <<"Missing", ": No meta description for AI/search snippet.">>
                      ELSE <<"Too long", ": May be truncated in AI/search results.">>],
             h1_tag_presence |->
                 [value |-> h1_count, optimal |-> h1_flag,
                  explanation |->
                      IF h1_flag
                      THEN <<"Optimal",
                             ": Single H1 tag provides clear main topic for AI parsing.">>
                      ELSE IF EqualsNumber(h1_count, 0)
                      THEN <<"Missing", ": No H1 tag for main topic.">>
                      ELSE <<"Multiple H1 tags", ": Ambiguous main topic for AI.">>],
             content_word_count |->
                 [value |-> word_count, optimal |-> content_flag,
                  explanation |->
                      IF content_flag
                      THEN <<"Optimal",
                             ": Sufficient content for AI to understand and summarize.">>
                      ELSE <<"Too little content",
                             ": May be considered 'thin' by AI/search.">>]])))))))))))))

\* the loop of _check_heading_hierarchy from the heading at index i on
RECURSIVE CheckLevelsFrom(_, _, _)
CheckLevelsFrom(levels, i, prev) ==
    IF i > Len(levels)
    THEN <<TRUE, <<"Optimal: Heading hierarchy is logical and accessible.">>>>
    ELSE IF levels[i] > prev + 1
    THEN <<FALSE, <<"Heading level skipped: h", prev, " to h", levels[i], ".">>>>
    ELSE CheckLevelsFrom(levels, i + 1, levels[i])

\* _check_heading_hierarchy allowing no move up either
_check_heading_hierarchy_strict(levels) ==
    IF levels = <<>> THEN <<FALSE, <<"No headings found.">>>>
    ELSE IF \E i \in 2 .. Len(levels) : levels[i] < levels[i - 1]
    THEN <<FALSE, <<"Heading level skipped: h", levels[1], " to h", levels[Len(levels)], ".">>>>
    ELSE CheckLevelsFrom(levels, 2, levels[1])

\* the pair (flag, explanation)
_check_heading_hierarchy(levels) ==
    IF levels = <<>> THEN <<FALSE, <<"No headings found.">>>>
    ELSE CheckLevelsFrom(levels, 2, levels[1])

---------------------------------------------------------------------------
(* The overall score of CrawlabilityAnalyzer, src/crawlability.py *)

\* sum(1 for bot in bot_directives.values() if bot["is_allowed"])
allowed_bots(bot_directives) ==
    Cardinality({b \in DOMAIN bot_directives.d : Truthy(bot_directives.d[b].d.is_allowed)})

\* len(bot_directives)
total_bots(bot_directives) == Cardinality(DOMAIN bot_directives.d)

\* the bot score taking the number of allowed bots for their share
llm_bot_score_count(llm_bot_analysis) ==
    Bind(Subscript(llm_bot_analysis, "robots_txt_exists"), LAMBDA robots_txt_exists :
        IF ~Truthy(robots_txt_exists) THEN Return(Zero)
        ELSE Bind(Subscript(llm_bot_analysis, "bot_directives"), LAMBDA bot_directives :
                 Return(IF total_bots(bot_directives) > 0
                        THEN Whole(allowed_bots(bot_directives))
                        ELSE Rat(1, 2))))

\* llm_bot_score of _compute_overall_score: 0.0 without a robots.txt, else the
\* share of the listed bots that are allowed, 0.5 when no bot is listed
llm_bot_score(llm_bot_analysis) ==
    Bind(Subscript(llm_bot_analysis, "robots_txt_exists"), LAMBDA robots_txt_exists :
        IF ~Truthy(robots_txt_exists) THEN Return(Zero)
        ELSE Bind(Subscript(llm_bot_analysis, "bot_directives"), LAMBDA bot_directives :
                 Return(IF total_bots(bot_directives) > 0
                        THEN Rat(allowed_bots(bot_directives), total_bots(bot_directives))
                        ELSE Rat(1, 2))))

\* sitemap_score of _compute_overall_score
sitemap_score(sitemap_status) ==
    Bind(Subscript(sitemap_status, "url_in_sitemap"), LAMBDA url_in_sitemap :
        IF Truthy(url_in_sitemap) THEN Return(One)
        ELSE Bind(Subscript(sitemap_status, "sitemap_exists"), LAMBDA sitemap_exists :
                 Return(IF Truthy(sitemap_exists) THEN Rat(1, 2) ELSE Zero)))

\* CrawlabilityAnalyzer._get_overall_score_explanation
_get_overall_score_explanation_crawl(score) ==
    IF RLe(Rat(8, 10), score) THEN "Excellent crawlability"
    ELSE IF RLe(Rat(6, 10), score) THEN "Good crawlability"
    ELSE IF RLe(Rat(4, 10), score) THEN "Fair crawlability"
    ELSE "Poor crawlability"

\* CrawlabilityAnalyzer._compute_overall_score
_compute_overall_score_crawl(indexability, sitemap_status, text_ratio, load_time, llm_bot_analysis) ==
    Bind(Subscript(indexability, "is_indexable"), LAMBDA is_indexable :
    Bind(sitemap_score(sitemap_status), LAMBDA sitemap :
    Bind(Subscript(text_ratio, "is_optimal"), LAMBDA ratio_is_optimal :
    Bind(Get(load_time, "is_optimal", PyBool(FALSE)), LAMBDA load_is_optimal :
    Bind(llm_bot_score(llm_bot_analysis), LAMBDA llm_bot :
        LET w == crawlability_weights
            components ==
                [indexability |-> IF Truthy(is_indexable) THEN One ELSE Zero,
                 sitemap |-> sitemap,
                 text_ratio |-> IF Truthy(ratio_is_optimal) THEN One ELSE Rat(1, 2),
                 load_time |-> IF Truthy(load_is_optimal) THEN One ELSE Zero,
                 llm_bot |-> llm_bot]
            overall_score ==
                RAdd(RAdd(RAdd(RAdd(RMul(components.indexability, w.indexability),
                                    RMul(components.sitemap, w.sitemap)),
                               RMul(components.text_ratio, w.text_ratio)),
                          RMul(components.load_time, w.load_time)),
                     RMul(components.llm_bot, w.llm_bot))
        IN  Return([score |-> overall_score,
                    components |-> components,
                    explanation |-> _get_overall_score_explanation_crawl(overall_score)]))))))

---------------------------------------------------------------------------
(* The range scorers called on two values against one range *)

Values == {Num(Whole(i)) : i \in -MaxValue .. MaxValue} \cup {Num(Rat(1, 2)), Num(Rat(3, 2))}
Bounds == {Whole(i) : i \in 0 .. MaxBound} \cup {Rat(1, 2)}

\* no range scorer call is under way
IdleRange ==
    /\ rs_value = Num(Zero)
    /\ rs_value2 = Num(Zero)
    /\ rs_min = Zero
    /\ rs_max = Zero
    /\ rs_norm = <<Pending, Pending>>
    /\ rs_range = <<Pending, Pending>>

\* no analysis is under way
IdleMetrics ==
    /\ m_analysis = PyNone
    /\ m_metrics = Pending
    /\ m_overall = Pending

\* no 0..100 aggregation is under way
IdleAggregate ==
    /\ agg_analysis = PyNone
    /\ agg_stack = <<>>
    /\ agg_ret = Pending
    /\ agg_outcome = Pending

\* no readability call is under way
IdleReadability ==
    /\ rd_score = Num(Zero)
    /\ rd_level = Pending
    /\ rd_text = Text(<<>>)
    /\ rd_content = EmptyDict
    /\ rd_report = Pending
    /\ rd_seo = Pending

\* no sub-analyser call is under way
IdleSections ==
    /\ an_analysis = PyNone
    /\ an_recs = Pending
    /\ an_image100 = Pending
    /\ an_image = Pending

\* no robots.txt is being analysed
IdleCrawl ==
    /\ cr_robots = <<>>
    /\ cr_bot = "GPTBot"
    /\ cr_directive = Pending
    /\ cr_directives = <<>>
    /\ cr_summary = Pending

\* analyze_seo_structure and _check_heading_hierarchy are not being called
IdleStructure ==
    /\ ai_analysis = EmptyDict
    /\ ai_structure = Pending
    /\ ai_levels = <<>>
    /\ ai_hierarchy = Pending

\* no crawlability score is being computed
IdleCrawlScore ==
    /\ cs_parts = EmptyDict
    /\ cs_overall = Pending

\* no instance is followed through its calls
IdleInstance ==
    /\ in_ideal_ranges = EmptyDict
    /\ in_stop_words = {}
    /\ in_analysis = PyNone
    /\ in_calls = <<>>

\* no scorer is being called
IdleScorers ==
    /\ sc_text = Text(<<>>)
    /\ sc_syllables = Pending
    /\ sc_headings = EmptyDict
    /\ sc_heading_score = Pending
    /\ sc_links = List(<<>>)
    /\ sc_link_score = Pending

InitRange ==
    /\ rs_value \in Values
    /\ rs_value2 \in Values
    /\ rs_min \in Bounds
    /\ rs_max \in Bounds
    /\ rs_norm = <<Pending, Pending>>
    /\ rs_range = <<Pending, Pending>>
    /\ IdleMetrics
    /\ IdleAggregate
    /\ IdleReadability
    /\ IdleSections
    /\ IdleCrawl
    /\ IdleStructure
    /\ IdleCrawlScore
    /\ IdleInstance
    /\ IdleScorers

NormalizeScore ==
    /\ rs_norm = <<Pending, Pending>>
    /\ rs_norm' = <<_normalize_score(rs_value, rs_min, rs_max),
                    _normalize_score(rs_value2, rs_min, rs_max)>>
    /\ UNCHANGED <<rs_value, rs_value2, rs_min, rs_max, rs_range, restRange>>

CalculateRangeScore ==
    /\ rs_range = <<Pending, Pending>>
    /\ rs_range' = <<_calculate_range_score(rs_value, <<rs_min, rs_max>>),
                     _calculate_range_score(rs_value2, <<rs_min, rs_max>>)>>
    /\ UNCHANGED <<rs_value, rs_value2, rs_min, rs_max, rs_norm, restRange>>

NextRange == NormalizeScore \/ CalculateRangeScore

SpecRange == InitRange /\ [][NextRange]_vars

---------------------------------------------------------------------------
(* The analyses handed to SEOMetrics (0..1): None, or a dict holding any       *)
(* subset of the six sections, each section well formed, sparse or ill typed   *)

Absent == [t |-> "absent"]
I(n) == Num(Whole(n))
Far(name) == Num(RMul(Whole(FarFactor), ideal_ranges[name][2]))

SampleText == Text(<<"T", "h", "i", "s", " ", "i", "s", " ", "a", " ", "t", "e", "s", "t", ".",
                     " ", "I", "t", " ", "h", "a", "s", " ", "t", "w", "o", ".">>)
SampleTitle == Text(<<"T", "e", "s", "t", " ", "P", "a", "g", "e">>)
LongLinkText == Text(<<"c", "l", "i", "c", "k", " ", "h", "e", "r", "e", " ", "t", "o", " ",
                       "r", "e", "a", "d", " ", "t", "h", "e", " ", "r", "e", "s", "t">>)

ContentVariants ==
    {Absent, PyNone, EmptyDict,
     \* the sample page of the tests
     Dict([content_length |-> I(1500), heading_structure |-> Dict([h1 |-> I(1), h2 |-> I(3), h3 |-> I(5)]),
           paragraph_count |-> I(10), avg_paragraph_length |-> I(150),
           text_html_ratio |-> I(25), main_content |-> SampleText]),
     \* a thin page, every measure below its ideal range
     Dict([content_length |-> I(150), heading_structure |-> Dict([h1 |-> I(1)]),
           paragraph_count |-> I(1), avg_paragraph_length |-> I(25),
           text_html_ratio |-> I(5), main_content |-> Text(<<>>)]),
     \* an oversized page, every measure far above its ideal range
     Dict([content_length |-> Far("content_length"),
           heading_structure |-> Dict([h1 |-> I(2), h2 |-> I(FarFactor * 30)]),
           paragraph_count |-> I(FarFactor * 10), avg_paragraph_length |-> I(FarFactor * 150),
           text_html_ratio |-> I(100), main_content |-> SampleText]),
     \* the ill-typed section of test_error_handling
     Dict([content_length |-> PyStr, heading_structure |-> PyNone])}

MetaVariants ==
    {Absent, EmptyDict,
     Dict([title |-> Dict([content |-> SampleTitle, length |-> I(25), found |-> PyBool(TRUE)]),
           meta_description |-> Dict([content |-> SampleTitle, length |-> I(55), found |-> PyBool(TRUE)])]),
     Dict([title |-> Dict([content |-> SampleTitle, length |-> I(55), found |-> PyBool(TRUE)]),
           meta_description |-> Dict([content |-> Text(<<>>), length |-> I(0), found |-> PyBool(FALSE)])]),
     Dict([title |-> Dict([content |-> SampleTitle, length |-> Far("title_length"), found |-> PyBool(TRUE)]),
           meta_description |-> Dict([content |-> PyNone, length |-> Far("meta_description_length"),
                                      found |-> PyBool(TRUE)])])}

KeywordVariants ==
    {Absent, EmptyDict,
     Dict([top_keywords |-> Dict([sample |-> Dict([density |-> Num(Rat(5, 2))]),
                                  test |-> Dict([density |-> Num(Rat(1, 4))])])]),
     Dict([top_keywords |-> Dict([stuffed |-> Dict([density |-> Far("keyword_density")])])]),
     Dict([top_keywords |-> Dict([sample |-> EmptyDict])])}

LinkVariants ==
    {Absent, EmptyDict,
     Dict([internal_links |-> Dict([count |-> I(2), links |-> List(<<Dict([text |-> SampleTitle]),
                                                                     Dict([text |-> Text(<<"a">>)])>>)]),
           external_links |-> Dict([count |-> I(0), links |-> List(<<>>)])]),
     Dict([internal_links |-> Dict([count |-> I(1), links |-> List(<<Dict([text |-> LongLinkText])>>)]),
           external_links |-> Dict([count |-> I(1), links |-> List(<<Dict([text |-> LongLinkText])>>)])])}

ImageVariants ==
    {Absent, EmptyDict,
     Dict([total_images |-> I(4), images_with_alt |-> I(3), images_with_dimensions |-> I(2)]),
     Dict([total_images |-> I(0), images_with_alt |-> I(0), images_with_dimensions |-> I(0)]),
     Dict([total_images |-> PyStr])}

TechnicalVariants ==
    {Absent, EmptyDict,
     Dict([has_viewport |-> PyBool(TRUE), has_favicon |-> PyBool(TRUE),
           has_structured_data |-> PyBool(FALSE), has_analytics |-> PyBool(TRUE),
           has_robots_txt |-> PyBool(TRUE)]),
     Dict([has_viewport |-> PyBool(TRUE), has_favicon |-> PyBool(TRUE),
           has_structured_data |-> PyBool(TRUE), has_analytics |-> PyBool(TRUE),
           has_robots_txt |-> PyBool(TRUE)])}

Sections == {"content_analysis", "meta_tags", "keyword_analysis", "link_analysis",
             "image_analysis", "technical_seo"}

\* the dict of the sections that are not Absent
MakeAnalysis(choice) ==
    Dict([k \in {x \in Sections : choice[x] # Absent} |-> choice[k]])

Analyses ==
    {PyNone} \cup
    {MakeAnalysis([content_analysis |-> c, meta_tags |-> m, keyword_analysis |-> k,
                   link_analysis |-> l, image_analysis |-> i, technical_seo |-> t]) :
        c \in ContentVariants, m \in MetaVariants, k \in KeywordVariants,
        l \in LinkVariants, i \in ImageVariants, t \in TechnicalVariants}

InitMetrics ==
    /\ m_analysis \in Analyses
    /\ m_metrics = Pending
    /\ m_overall = Pending
    /\ IdleRange
    /\ IdleAggregate
    /\ IdleReadability
    /\ IdleSections
    /\ IdleCrawl
    /\ IdleStructure
    /\ IdleCrawlScore
    /\ IdleInstance
    /\ IdleScorers

\* the caller runs compute_metrics(m_analysis)
ComputeMetrics ==
    /\ m_metrics = Pending
    /\ m_metrics' = compute_metrics(m_analysis)
    /\ UNCHANGED <<m_analysis, m_overall, restMetrics>>

\* the caller runs _compute_overall_score(m_analysis), as the tests do
ComputeOverallScore ==
    /\ m_overall = Pending
    /\ m_overall' = Return(_compute_overall_score(m_analysis))
    /\ UNCHANGED <<m_analysis, m_metrics, restMetrics>>

NextMetrics == ComputeMetrics \/ ComputeOverallScore

SpecMetrics == InitMetrics /\ [][NextMetrics]_vars

\* the analyses handed to SEOMetrics (0..100): the link, image and technical
\* sections well formed, the others as above, or the keyword table empty
Analyses100 ==
    {MakeAnalysis([content_analysis |-> c, meta_tags |-> m, keyword_analysis |-> k,
                   link_analysis |-> l, image_analysis |-> i, technical_seo |-> t]) :
        c \in ContentVariants, m \in MetaVariants,
        k \in KeywordVariants \cup {Dict([top_keywords |-> EmptyDict])},
        l \in {x \in LinkVariants : x \notin {Absent, EmptyDict}},
        i \in {x \in ImageVariants : x # Absent /\ "images_with_alt" \in DOMAIN x.d},
        t \in {x \in TechnicalVariants : x \notin {Absent, EmptyDict}}}

InitAggregate ==
    /\ agg_analysis \in Analyses100
    /\ agg_stack = <<>>
    /\ agg_ret = Pending
    /\ agg_outcome = Pending
    /\ IdleRange
    /\ IdleMetrics
    /\ IdleReadability
    /\ IdleSections
    /\ IdleCrawl
    /\ IdleStructure
    /\ IdleCrawlScore
    /\ IdleInstance
    /\ IdleScorers

NextAggregate == CallComputeMetrics100 \/ compute_metrics100 \/ _compute_overall_score100

SpecAggregate == InitAggregate /\ [][NextAggregate]_vars

---------------------------------------------------------------------------
(* The readability calls: _get_readability_level on a score, and            *)
(* ReadabilityAnalyzer.analyze_readability and SEOMetrics._compute_readability *)
(* on a text                                                                 *)

\* the words of the generated texts
Vocabulary ==
    <<<<"t", "e", "s", "t">>,
      <<"s", "i", "m", "p", "l", "e">>,
      <<"i", "m", "p", "l", "e", "m", "e", "n", "t", "a", "t", "i", "o", "n">>>>

\* the words joined by single spaces
RECURSIVE JoinWords(_, _)
JoinWords(words, i) ==
    IF i > Len(words) THEN <<>>
    ELSE IF i = Len(words) THEN words[i]
    ELSE words[i] \o <<" ">> \o JoinWords(words, i + 1)

\* the texts of n words, a space or the end of a sentence between two words
RECURSIVE WordsUpTo(_)
WordsUpTo(n) ==
    IF n = 1 THEN Range(Vocabulary)
    ELSE {t \o sep \o w : t \in WordsUpTo(n - 1), sep \in {<<" ">>, <<".", " ">>},
                          w \in Range(Vocabulary)}

\* texts of one to MaxWords words in sentences that each end with a '.'
PlainTexts == UNION {{t \o <<".">> : t \in WordsUpTo(n)} : n \in 1 .. MaxWords}

EmptyText == <<>>
BlankText == <<" ", " ", "\n">>
\* the sample text of the end-to-end scenario
TwoSentences ==
    <<"T", "h", "i", "s", " ", "i", "s", " ", "a", " ", "s", "i", "m", "p", "l",
      "e", " ", "t", "e", "s", "t", ".", " ", "I", "t", " ", "h", "a", "s", " ",
      "t", "w", "o", " ", "s", "e", "n", "t", "e", "n", "c", "e", "s", ".">>
\* a markup fragment with other terminators
TaggedText ==
    <<"<", "p", ">", "I", "s", " ", "i", "t", " ", "s", "i", "m", "p", "l", "e",
      "?", " ", "A", " ", "t", "e", "s", "t", "!", "<", "/", "p", ">">>
\* one sentence of sixteen words: k times the word w, then the word 'it'
LongSentence(w, k) ==
    JoinWords([i \in 1 .. 16 |-> IF i <= k THEN w ELSE <<"i", "t">>], 1) \o <<".">>
LongTexts ==
    {LongSentence(<<"i", "t">>, 0), LongSentence(<<"a", "n", "y">>, 7),
     LongSentence(<<"a", "r", "e", "a">>, 3), LongSentence(<<"a", "r", "e", "a">>, 6)}

\* the texts whose sentences each end with one terminator
SentenceTexts == PlainTexts \cup LongTexts \cup {TwoSentences}
Texts == SentenceTexts \cup {EmptyText, BlankText, TaggedText}

\* the scores handed to _get_readability_level
Scores ==
    {Num(Whole(10 * i + d)) : i \in -1 .. MaxDecade, d \in {0, 5, 9}}
        \cup {Num(Rat(599, 10)), PyNone, PyStr}

\* a score and no text, or a text with the content_analysis section holding it
\* (an empty text also as a missing or None main_content)
InitReadability ==
    /\ \/ rd_score \in Scores /\ rd_text = Text(EmptyText)
       \/ rd_score = Num(Zero) /\ rd_text \in {Text(t) : t \in Texts}
    /\ rd_content \in {Dict([main_content |-> rd_text])} \cup
           (IF rd_text = Text(EmptyText)
            THEN {EmptyDict, Dict([main_content |-> PyNone])} ELSE {})
    /\ rd_level = Pending
    /\ rd_report = Pending
    /\ rd_seo = Pending
    /\ IdleRange
    /\ IdleMetrics
    /\ IdleAggregate
    /\ IdleSections
    /\ IdleCrawl
    /\ IdleStructure
    /\ IdleCrawlScore
    /\ IdleInstance
    /\ IdleScorers

\* the caller runs SEOMetrics._get_readability_level(rd_score)
GetReadabilityLevel ==
    /\ rd_level = Pending
    /\ rd_level' = Return(_get_readability_level(rd_score))
    /\ UNCHANGED <<rd_score, rd_text, rd_content, rd_report, rd_seo, restReadability>>

\* the caller runs ReadabilityAnalyzer.analyze_readability(rd_text)
AnalyzeReadability ==
    /\ rd_report = Pending
    /\ rd_report' = analyze_readability(rd_text)
    /\ UNCHANGED <<rd_score, rd_level, rd_text, rd_content, rd_seo, restReadability>>

\* the caller runs SEOMetrics._compute_readability on an analysis holding rd_content
ComputeReadability ==
    /\ rd_seo = Pending
    /\ rd_seo' = Return(_compute_readability(Dict([content_analysis |-> rd_content])))
    /\ UNCHANGED <<rd_score, rd_level, rd_text, rd_content, rd_report, restReadability>>

NextReadability == GetReadabilityLevel \/ AnalyzeReadability \/ ComputeReadability

SpecReadability == InitReadability /\ [][NextReadability]_vars

---------------------------------------------------------------------------
(* The sub-analysers called on one analysis, as the tests call them:         *)
(* _generate_recommendations and _analyze_image_optimization (0..100) and    *)
(* _compute_image_optimization (0..1)                                        *)

\* the lengths of the title and of the meta description, around their ranges
TitleLengths == {49, 50, 55, 60, 61}
MetaDescriptionLengths == {0, 120, 160, 161}

\* the image sections: every count of images, of images with alt text and of
\* images with dimensions
ImageSections ==
    {Dict([total_images |-> I(total), images_with_alt |-> I(alt),
           images_with_dimensions |-> I(dims)]) :
        total \in 0 .. MaxImages, alt \in 0 .. MaxImages, dims \in 0 .. MaxImages}

\* the counts of an image section are consistent
ConsistentImages(images) ==
    /\ images.d.images_with_alt.r[1] <= images.d.total_images.r[1]
    /\ images.d.images_with_dimensions.r[1] <= images.d.total_images.r[1]

\* a well-formed analysis: all six sections present
PageAnalysis(title_length, meta_desc_length, images, viewport, structured_data) ==
    Dict([content_analysis |->
              Dict([content_length |-> I(1500),
                    heading_structure |-> Dict([h1 |-> I(1), h2 |-> I(3), h3 |-> I(5)]),
                    paragraph_count |-> I(10), avg_paragraph_length |-> I(150),
                    text_html_ratio |-> I(25), main_content |-> SampleText]),
          meta_tags |->
              Dict([title |-> Dict([content |-> SampleTitle, length |-> I(title_length),
                                    found |-> PyBool(TRUE)]),
                    meta_description |->
                        Dict([content |-> SampleTitle, length |-> I(meta_desc_length),
                              found |-> PyBool(meta_desc_length > 0)])]),
          keyword_analysis |->
              Dict([top_keywords |-> Dict([sample |-> Dict([density |-> Num(Rat(5, 2))])])]),
          link_analysis |->
              Dict([internal_links |-> Dict([count |-> I(0), links |-> List(<<>>)]),
                    external_links |-> Dict([count |-> I(0), links |-> List(<<>>)])]),
          image_analysis |-> images,
          technical_seo |->
              Dict([has_viewport |-> PyBool(viewport), has_favicon |-> PyBool(TRUE),
                    has_structured_data |-> PyBool(structured_data),
                    has_analytics |-> PyBool(TRUE), has_robots_txt |-> PyBool(TRUE)])])

\* the well-formed analyses, and the sample page with an empty image section
InitSections ==
    /\ an_analysis \in
           {PageAnalysis(t, m, i, v, d) :
               t \in TitleLengths, m \in MetaDescriptionLengths,
               i \in {x \in ImageSections : ConsistentImages(x)},
               v \in BOOLEAN, d \in BOOLEAN}
           \cup {PageAnalysis(55, 0, EmptyDict, TRUE, FALSE)}
    /\ an_recs = Pending
    /\ an_image100 = Pending
    /\ an_image = Pending
    /\ IdleRange
    /\ IdleMetrics
    /\ IdleAggregate
    /\ IdleReadability
    /\ IdleCrawl
    /\ IdleStructure
    /\ IdleCrawlScore
    /\ IdleInstance
    /\ IdleScorers

\* the caller runs _generate_recommendations(an_analysis) of src/seo/seo_metrics.py
GenerateRecommendations ==
    /\ an_recs = Pending
    /\ an_recs' = _generate_recommendations(an_analysis)
    /\ UNCHANGED <<an_analysis, an_image100, an_image, restSections>>

\* the caller runs _analyze_image_optimization(an_analysis) of src/seo/seo_metrics.py
AnalyzeImageOptimization ==
    /\ an_image100 = Pending
    /\ an_image100' = _analyze_image_optimization(an_analysis)
    /\ UNCHANGED <<an_analysis, an_recs, an_image, restSections>>

\* the caller runs _compute_image_optimization(an_analysis) of src/seo_metrics.py
ComputeImageOptimization ==
    /\ an_image = Pending
    /\ an_image' = Return(_compute_image_optimization(an_analysis))
    /\ UNCHANGED <<an_analysis, an_recs, an_image100, restSections>>

NextSections ==
    GenerateRecommendations \/ AnalyzeImageOptimization \/ ComputeImageOptimization

SpecSections == InitSections /\ [][NextSections]_vars

---------------------------------------------------------------------------
(* The robots.txt analysis: _analyze_bot_directive for one bot,              *)
(* _analyze_llm_bot_directives for all of them, _generate_llm_bot_summary    *)
(* for a mapping of directives                                               *)

\* the lines the robots.txt texts are made of
RobotsLines ==
    {<<"U", "s", "e", "r", "-", "a", "g", "e", "n", "t", ":", " ", "G", "P", "T", "B", "o", "t">>,
     <<"U", "s", "e", "r", "-", "a", "g", "e", "n", "t", ":", " ", "C", "l", "a", "u", "d",
       "e", "B", "o", "t">>,
     <<"U", "s", "e", "r", "-", "a", "g", "e", "n", "t", ":", " ", "a", "n", "t", "h", "r",
       "o", "p", "i", "c", "-", "a", "i">>,
     <<"U", "s", "e", "r", "-", "a", "g", "e", "n", "t", ":", " ", "*">>,
     <<"u", "s", "e", "r", "-", "a", "g", "e", "n", "t", ":", " ", "g", "p", "t", "b", "o", "t">>,
     <<"D", "i", "s", "a", "l", "l", "o", "w", ":", " ", "/", "p", "r", "i", "v", "a", "t",
       "e", "/">>,
     <<"D", "i", "s", "a", "l", "l", "o", "w", ":", " ", "/", "t", "m", "p", "/">>,
     <<"D", "i", "s", "a", "l", "l", "o", "w", ":">>,
     <<"C", "r", "a", "w", "l", "-", "d", "e", "l", "a", "y", ":", " ", "1", "0">>}

\* the texts of n lines, each line but the last ended by a newline
RECURSIVE TextsOfLines(_)
TextsOfLines(n) ==
    IF n = 1 THEN RobotsLines
    ELSE {q \o <<"\n">> \o line : q \in TextsOfLines(n - 1), line \in RobotsLines}

\* the robots.txt of the tests
sample_robots_txt ==
    <<"\n", "U", "s", "e", "r", "-", "a", "g", "e", "n", "t", ":", " ", "G", "P", "T", "B",
      "o", "t", "\n", "D", "i", "s", "a", "l", "l", "o", "w", ":", " ", "/", "p", "r", "i",
      "v", "a", "t", "e", "/", "\n", "C", "r", "a", "w", "l", "-", "d", "e", "l", "a", "y",
      ":", " ", "1", "0", "\n", "\n", "U", "s", "e", "r", "-", "a", "g", "e", "n", "t", ":",
      " ", "C", "l", "a", "u", "d", "e", "B", "o", "t", "\n", "A", "l", "l", "o", "w", ":",
      " ", "/", "\n", "C", "r", "a", "w", "l", "-", "d", "e", "l", "a", "y", ":", " ", "5",
      "\n", "\n", "U", "s", "e", "r", "-", "a", "g", "e", "n", "t", ":", " ", "G", "o", "o",
      "g", "l", "e", "-", "E", "x", "t", "e", "n", "d", "e", "d", "\n", "D", "i", "s", "a",
      "l", "l", "o", "w", ":", " ", "/", "a", "p", "i", "/", "\n", "D", "i", "s", "a", "l",
      "l", "o", "w", ":", " ", "/", "a", "d", "m", "i", "n", "/", "\n", "\n", "U", "s", "e",
      "r", "-", "a", "g", "e", "n", "t", ":", " ", "*", "\n", "A", "l", "l", "o", "w", ":",
      " ", "/", "\n", " ", " ", " ", " ">>

RobotsTexts ==
    {<<>>, sample_robots_txt} \cup UNION {TextsOfLines(n) : n \in 1 .. MaxLines}

\* the bots looked up: one user agent, two user agents, and one no line names
Bots == {"GPTBot", "ClaudeBot", "CCBot"}

\* the bots of the mappings made by hand
MappedBots == {"GPTBot", "ClaudeBot", "Google-Extended", "CCBot"}

\* the mappings of bot directives made by hand, as the tests make them: n
\* bots of MappedBots, each once as the keys of a dictionary are, allowed or not
RECURSIVE MappingsOf(_)
MappingsOf(n) ==
    IF n = 0 THEN {<<>>}
    ELSE UNION {{Append(m, <<name, [is_allowed |-> allowed,
                                     company |-> BotInfo(name).company]>>) :
                    name \in MappedBots \ {m[i][1] : i \in DOMAIN m}, allowed \in BOOLEAN} :
                m \in MappingsOf(n - 1)}

Mappings == UNION {MappingsOf(n) : n \in 0 .. MaxBots}

\* a robots.txt text and a bot to look up, or a mapping made by hand
InitCrawl ==
    /\ \/ /\ cr_robots \in RobotsTexts
          /\ cr_bot \in Bots
          /\ cr_directives = <<>>
       \/ /\ cr_robots = <<>>
          /\ cr_bot = "GPTBot"
          /\ cr_directives \in Mappings
    /\ cr_directive = Pending
    /\ cr_summary = Pending
    /\ IdleRange
    /\ IdleMetrics
    /\ IdleAggregate
    /\ IdleReadability
    /\ IdleSections
    /\ IdleStructure
    /\ IdleCrawlScore
    /\ IdleInstance
    /\ IdleScorers

\* the caller runs _analyze_bot_directive(cr_robots, user_agents, llm_bots[cr_bot])
AnalyzeBotDirective ==
    /\ cr_directive = Pending
    /\ cr_directive' = Return(_analyze_bot_directive(cr_robots, UserAgents(BotInfo(cr_bot)),
                                                     BotInfo(cr_bot)))
    /\ UNCHANGED <<cr_robots, cr_bot, cr_directives, cr_summary, restCrawl>>

\* _analyze_llm_bot_directives with robots.txt answered by cr_robots: every
\* bot of the table is analysed and the summary is made of the directives
AnalyzeLlmBotDirectives ==
    /\ cr_summary = Pending
    /\ cr_directives = <<>>
    /\ cr_directives' = AllBotDirectives(cr_robots)
    /\ cr_summary' = Return(_generate_llm_bot_summary(cr_directives'))
    /\ UNCHANGED <<cr_robots, cr_bot, cr_directive, restCrawl>>

\* the caller runs _generate_llm_bot_summary(cr_directives)
GenerateLlmBotSummary ==
    /\ cr_summary = Pending
    /\ cr_robots = <<>>
    /\ cr_summary' = Return(_generate_llm_bot_summary(cr_directives))
    /\ UNCHANGED <<cr_robots, cr_bot, cr_directive, cr_directives, restCrawl>>

NextCrawl == AnalyzeBotDirective \/ AnalyzeLlmBotDirectives \/ GenerateLlmBotSummary

SpecCrawl == InitCrawl /\ [][NextCrawl]_vars

---------------------------------------------------------------------------
(* The structure checks of AIReadabilityAnalyzer: analyze_seo_structure on   *)
(* an analysis, _check_heading_hierarchy on the heading levels of a page     *)

\* the dict of the keys of choice that are not Absent
DictOf(choice) == Dict([k \in {x \in DOMAIN choice : choice[x] # Absent} |-> choice[k]])

\* a text of n characters
TextOfLength(n) == Text([i \in 1 .. n |-> "x"])

\* a text of n words, gap blanks between them
TextOfWords(n, gap) ==
    Text([i \in 1 .. n * (gap + 1) |-> IF i % (gap + 1) = 1 THEN "w" ELSE " "])

\* a tag of the page: missing, without content, or with a content of some length
TagVariants(lengths) ==
    {Absent, EmptyDict} \cup {Dict([content |-> TextOfLength(n)]) : n \in lengths}

MetaTagsVariants ==
    {Absent} \cup
    {DictOf([title |-> t, meta_description |-> d]) :
        t \in TagVariants({title_ideal_min - 1, title_ideal_min,
                           title_ideal_max, title_ideal_max + 1}),
        d \in TagVariants({0, 1, meta_desc_max, meta_desc_max + 1})}

HeadingVariants == {Absent, EmptyDict} \cup {Dict([h1 |-> I(n), h2 |-> I(2)]) : n \in 0 .. 3}

MainContentVariants ==
    {Absent, TextOfWords(content_word_min - 1, 2)} \cup
    {TextOfWords(n, 1) : n \in {0, 1, content_word_min - 1, content_word_min,
                                content_word_min + 1}}

ContentAnalysisVariants ==
    {Absent} \cup
    {DictOf([heading_structure |-> h, main_content |-> c]) :
        h \in HeadingVariants, c \in MainContentVariants}

StructureAnalyses ==
    {DictOf([meta_tags |-> m, content_analysis |-> c]) :
        m \in MetaTagsVariants, c \in ContentAnalysisVariants}

\* the sequences of up to n heading levels, each 1 .. 6
RECURSIVE LevelsUpTo(_)
LevelsUpTo(n) ==
    IF n = 0 THEN {<<>>}
    ELSE LevelsUpTo(n - 1) \cup
         {Append(l, h) : l \in {x \in LevelsUpTo(n - 1) : Len(x) = n - 1}, h \in 1 .. 6}

\* an analysis for analyze_seo_structure, or the heading levels of a page
InitStructure ==
    /\ \/ /\ ai_analysis \in StructureAnalyses
          /\ ai_levels = <<>>
       \/ /\ ai_analysis = EmptyDict
          /\ ai_levels \in LevelsUpTo(MaxHeadings)
    /\ ai_structure = Pending
    /\ ai_hierarchy = Pending
    /\ IdleRange
    /\ IdleMetrics
    /\ IdleAggregate
    /\ IdleReadability
    /\ IdleSections
    /\ IdleCrawl
    /\ IdleCrawlScore
    /\ IdleInstance
    /\ IdleScorers

\* the caller runs analyze_seo_structure(ai_analysis)
AnalyzeSeoStructure ==
    /\ ai_structure = Pending
    /\ ai_structure' = analyze_seo_structure(ai_analysis)
    /\ UNCHANGED <<ai_analysis, ai_levels, ai_hierarchy, restStructure>>

\* the caller runs _check_heading_hierarchy(ai_levels)
CheckHeadingHierarchy ==
    /\ ai_hierarchy = Pending
    /\ ai_hierarchy' = Return(_check_heading_hierarchy(ai_levels))
    /\ UNCHANGED <<ai_analysis, ai_levels, ai_structure, restStructure>>

NextStructure == AnalyzeSeoStructure \/ CheckHeadingHierarchy

SpecStructure == InitStructure /\ [][NextStructure]_vars

---------------------------------------------------------------------------
(* The overall crawlability score computed from the five analyses *)

IndexabilityAnalyses == {Dict([is_indexable |-> PyBool(b)]) : b \in BOOLEAN}

SitemapStatuses ==
    {Dict([sitemap_exists |-> PyBool(e), url_in_sitemap |-> PyBool(u)]) :
        e \in BOOLEAN, u \in BOOLEAN}

TextRatioAnalyses == {Dict([is_optimal |-> PyBool(b)]) : b \in BOOLEAN}

\* a measured load time, optimal or not, and the failed measurement
\* _measure_load_time returns on a RequestException; the last has no
\* "is_optimal" at all
LoadTimeAnalyses ==
    {Dict([load_time |-> I(1), is_optimal |-> PyBool(b)]) : b \in BOOLEAN}
    \cup {Dict([load_time |-> PyNone, is_optimal |-> PyBool(FALSE)]),
          Dict([load_time |-> PyNone])}

\* the names of up to MaxBots bots
ScoredBots == {llm_bots[i][1] : i \in 1..MaxBots}

\* a robots.txt found or not, and any of the bots listed, each allowed or not
LlmBotAnalyses ==
    {Dict([robots_txt_exists |-> PyBool(e),
           bot_directives |-> Dict([b \in S |-> Dict([is_allowed |-> PyBool(b \in A)])])]) :
        e \in BOOLEAN,
        S \in SUBSET ScoredBots,
        A \in SUBSET ScoredBots}

InitCrawlScore ==
    /\ cs_parts \in
         {Dict([indexability |-> i, sitemap_status |-> s, text_ratio |-> t,
                load_time |-> l, llm_bot_analysis |-> a]) :
            i \in IndexabilityAnalyses, s \in SitemapStatuses, t \in TextRatioAnalyses,
            l \in LoadTimeAnalyses, a \in LlmBotAnalyses}
    /\ cs_overall = Pending
    /\ IdleRange
    /\ IdleMetrics
    /\ IdleAggregate
    /\ IdleReadability
    /\ IdleSections
    /\ IdleCrawl
    /\ IdleStructure
    /\ IdleInstance
    /\ IdleScorers

\* analyze_crawlability hands the five analyses to _compute_overall_score
ComputeOverallScoreCrawl ==
    /\ cs_overall = Pending
    /\ cs_overall' = _compute_overall_score_crawl(cs_parts.d.indexability,
                                                  cs_parts.d.sitemap_status,
                                                  cs_parts.d.text_ratio,
                                                  cs_parts.d.load_time,
                                                  cs_parts.d.llm_bot_analysis)
    /\ UNCHANGED <<cs_parts, restCrawlScore>>

NextCrawlScore == ComputeOverallScoreCrawl

SpecCrawlScore == InitCrawlScore /\ [][NextCrawlScore]_vars

---------------------------------------------------------------------------
(* One SEOMetrics instance serving a sequence of compute_metrics calls *)

\* what the calls are given: None, the analyses made of one content section
\* (missing, None, empty, sound or ill-typed) and the sample page whole
InstanceAnalyses ==
    {PyNone} \cup
    {MakeAnalysis([content_analysis |-> c, meta_tags |-> Absent, keyword_analysis |-> Absent,
                   link_analysis |-> Absent, image_analysis |-> Absent,
                   technical_seo |-> Absent]) : c \in ContentVariants}

\* the instance as __init__ leaves it, no call made
InitInstance ==
    /\ in_ideal_ranges = ideal_ranges
    /\ in_stop_words = stop_words
    /\ in_analysis = PyNone
    /\ in_calls = <<>>
    /\ IdleRange
    /\ IdleMetrics
    /\ IdleAggregate
    /\ IdleReadability
    /\ IdleSections
    /\ IdleCrawl
    /\ IdleStructure
    /\ IdleCrawlScore
    /\ IdleScorers

\* the sections compute_metrics reads
sections_read ==
    {"content_analysis", "meta_tags", "keyword_analysis", "link_analysis", "image_analysis"}

\* a compute_metrics reading its sections with setdefault(key, {}) in place
\* of get(key, {}): the dict it was given comes back with the missing
\* sections filled in
CallComputeMetricsOnInstance_setdefault ==
    /\ Len(in_calls) < MaxCalls
    /\ \E seo_analysis \in InstanceAnalyses :
          /\ in_analysis' =
                IF seo_analysis.t = "dict"
                THEN Dict([k \in DOMAIN seo_analysis.d \cup sections_read |->
                              IF k \in DOMAIN seo_analysis.d THEN seo_analysis.d[k]
                              ELSE EmptyDict])
                ELSE seo_analysis
          /\ in_calls' = Append(in_calls, [given |-> seo_analysis,
                                           result |-> compute_metrics(seo_analysis)])
    /\ UNCHANGED <<in_ideal_ranges, in_stop_words, restInstance>>

\* the caller runs compute_metrics(seo_analysis) on the instance: the
\* methods read self.ideal_ranges, self.stop_words and the dict (get and
\* subscripts only) and assign to locals alone; in_analysis is the dict
\* object as the call leaves it
CallComputeMetricsOnInstance ==
    /\ Len(in_calls) < MaxCalls
    /\ \E seo_analysis \in InstanceAnalyses :
          /\ in_analysis' = seo_analysis
          /\ in_calls' = Append(in_calls, [given |-> seo_analysis,
                                           result |-> compute_metrics(seo_analysis)])
    /\ UNCHANGED <<in_ideal_ranges, in_stop_words, restInstance>>

NextInstance == CallComputeMetricsOnInstance

SpecInstance == InitInstance /\ [][NextInstance]_vars

---------------------------------------------------------------------------
(* The scorers of SEOMetrics (0..1) called on their own: _count_syllables, *)
(* _calculate_heading_score and _compute_link_quality                      *)

\* the words of the texts handed to _count_syllables
SyllableWords ==
    {<<"a">>, <<"t", "e", "s", "t">>, <<"T", "h", "e">>, <<"t", "r", "e", "e">>,
     <<"h", "e", "l", "l", "o">>, <<"q", "u", "e", "u", "e">>}

RECURSIVE SyllableTextsOf(_)
\* the texts of n of the words, a blank apart
SyllableTextsOf(n) ==
    IF n = 0 THEN {<<>>}
    ELSE IF n = 1 THEN SyllableWords
    ELSE {t \o <<" ">> \o w : t \in SyllableTextsOf(n - 1), w \in SyllableWords}

\* texts of up to MaxWords words, and one with whitespace around its words
SyllableTexts ==
    UNION {SyllableTextsOf(n) : n \in 0 .. MaxWords}
    \cup {<<" ", "a", "\n", "\t", "T", "h", "e", " ">>}

\* heading counts by level: h1 and h2 missing or 0..2, with none, few or
\* many h3 to bring the density under, into and over its range
HeadingCounts ==
    {Dict([k \in {x \in {"h1", "h2", "h3"} : c[x] >= 0} |-> I(c[k])]) :
        c \in {[h1 |-> a, h2 |-> b, h3 |-> d] : a \in -1 .. 2, b \in -1 .. 2,
                                                d \in {-1, 0, 10, 25, 40}}}

\* the links scored: without text, a stopword, a capitalised stopword, a
\* word of ideal length and a text far over the ideal length
ScoredLinks ==
    {EmptyDict, Dict([text |-> Text(<<"a">>)]), Dict([text |-> Text(<<"T", "h", "e">>)]),
     Dict([text |-> Text(<<"h", "o", "m", "e">>)]), Dict([text |-> LongLinkText])}

LinkLists == UNION {[1 .. n -> ScoredLinks] : n \in 0 .. MaxLinks}

\* the external links are none or one
ExternalLinkLists == UNION {[1 .. n -> ScoredLinks] : n \in 0 .. 1}

\* the link_analysis section of the lists internal and external
LinkAnalysisOf(internal, external) ==
    Dict([internal_links |-> Dict([count |-> I(Len(internal)), links |-> List(internal)]),
          external_links |-> Dict([count |-> I(Len(external)), links |-> List(external)])])

InitScorers ==
    /\ \/ /\ sc_text \in {Text(t) : t \in SyllableTexts}
          /\ sc_headings = EmptyDict
          /\ sc_links = List(<<>>)
       \/ /\ sc_text = Text(<<>>)
          /\ sc_headings \in HeadingCounts
          /\ sc_links = List(<<>>)
       \/ /\ sc_text = Text(<<>>)
          /\ sc_headings = EmptyDict
          /\ sc_links \in {LinkAnalysisOf(i, e) : i \in LinkLists, e \in ExternalLinkLists}
    /\ sc_syllables = Pending
    /\ sc_heading_score = Pending
    /\ sc_link_score = Pending
    /\ IdleRange
    /\ IdleMetrics
    /\ IdleAggregate
    /\ IdleReadability
    /\ IdleSections
    /\ IdleCrawl
    /\ IdleStructure
    /\ IdleCrawlScore
    /\ IdleInstance

\* the caller runs _count_syllables(sc_text)
CountSyllables ==
    /\ sc_syllables = Pending
    /\ sc_syllables' = Return(_count_syllables(sc_text))
    /\ UNCHANGED <<sc_text, sc_headings, sc_heading_score, sc_links, sc_link_score,
                   restScorers>>

\* the caller runs _calculate_heading_score(sc_headings)
CalculateHeadingScore ==
    /\ sc_heading_score = Pending
    /\ sc_heading_score' = Return(_calculate_heading_score(sc_headings))
    /\ UNCHANGED <<sc_text, sc_syllables, sc_headings, sc_links, sc_link_score,
                   restScorers>>

\* the caller runs _compute_link_quality on an analysis whose link_analysis
\* section is sc_links; the call scores both lists with
\* _calculate_link_text_score
ComputeLinkQuality ==
    /\ sc_link_score = Pending
    /\ sc_links.t = "dict"
    /\ sc_link_score' = Return(_compute_link_quality(Dict([link_analysis |-> sc_links])))
    /\ UNCHANGED <<sc_text, sc_syllables, sc_headings, sc_heading_score, sc_links,
                   restScorers>>

NextScorers == CountSyllables \/ CalculateHeadingScore \/ ComputeLinkQuality

SpecScorers == InitScorers /\ [][NextScorers]_vars

---------------------------------------------------------------------------
(* Claims about SEOMetrics (0..1), checked under SpecMetrics *)

MetricsCalled == m_metrics.exc # "pending"
OverallCalled == m_overall.exc # "pending"
ReportKeys == {"content_quality", "technical_score", "readability", "keyword_optimization",
               "link_quality", "image_optimization", "overall_score"}
HasSection(k) == m_analysis.t = "dict" /\ k \in DOMAIN m_analysis.d
InUnit(r) == RLe(Zero, r) /\ RLe(r, One)

\* C5: compute_metrics lets no exception escape: for every input (None, a dict
\* with any sections missing or ill typed) it returns a dict with the seven
\* keys of the report.
C5_ComputeMetricsAlwaysReturnsReport ==
    MetricsCalled => Returned(m_metrics) /\ DOMAIN m_metrics.val = ReportKeys

\* compute_metrics has returned a report for None
C5_Witness ==
    /\ MetricsCalled /\ m_analysis = PyNone
    /\ Returned(m_metrics) /\ DOMAIN m_metrics.val = ReportKeys

\* the sections each sub-scorer reads with analysis[...]
RequiredSections ==
    [content_quality |-> {"content_analysis", "meta_tags"},
     technical_score |-> {"technical_seo", "meta_tags"},
     readability |-> {"content_analysis"},
     keyword_optimization |-> {"keyword_analysis", "meta_tags"},
     link_quality |-> {"link_analysis"},
     image_optimization |-> {"image_analysis"}]

OnlyEmptyContent == Dict([content_analysis |-> EmptyDict])

\* C6: a sub-scorer that cannot read a section it requires (the key is absent,
\* or the input is None) returns exactly its entry of _get_default_metrics;
\* and for None, {} and {'content_analysis': {}} every composite score and
\* the overall score are 0.0.
C6_MissingInputDefaultsToZero ==
    (MetricsCalled /\ Returned(m_metrics)) =>
        /\ \A s \in DOMAIN RequiredSections :
              (\E k \in RequiredSections[s] : ~HasSection(k)) =>
                  m_metrics.val[s] = _get_default_metrics[s]
        /\ m_analysis \in {PyNone, EmptyDict, OnlyEmptyContent} =>
              /\ m_metrics.val.content_quality.overall_content_score = Zero
              /\ m_metrics.val.technical_score.overall_technical_score = Zero
              /\ m_metrics.val.keyword_optimization.keyword_optimization_score = Zero
              /\ m_metrics.val.link_quality.overall_link_quality_score = Zero
              /\ m_metrics.val.image_optimization.overall_image_score = Zero
              /\ m_metrics.val.overall_score.overall_score = Zero

\* compute_metrics has scored {'content_analysis': {}}: readability read its
\* section, the other sub-scorers fell back to their defaults
C6_Witness ==
    /\ MetricsCalled /\ m_analysis = OnlyEmptyContent
    /\ m_metrics.val.content_quality = _get_default_metrics.content_quality
    /\ m_metrics.val.readability.readability_level = "Very Difficult"
    /\ m_metrics.val.overall_score.overall_score = Zero

\* C8: _compute_overall_score returns 0.3*content_quality + 0.2*technical_score
\* + 0.2*keyword_score + 0.15*link_score + 0.15*image_score over the five
\* values of its score_breakdown, each the composite its sub-scorer returns
\* for the same analysis.
C8_OverallIsWeightedSum ==
    OverallCalled =>
        LET b == m_overall.val.score_breakdown
        IN  /\ m_overall.val.overall_score =
                   RAdd(RAdd(RAdd(RAdd(RMul(Rat(3, 10), b.content_quality),
                                       RMul(Rat(2, 10), b.technical_score)),
                                  RMul(Rat(2, 10), b.keyword_score)),
                             RMul(Rat(15, 100), b.link_score)),
                        RMul(Rat(15, 100), b.image_score))
            /\ b.content_quality = _compute_content_quality(m_analysis).overall_content_score
            /\ b.technical_score = _compute_technical_score(m_analysis).overall_technical_score
            /\ b.keyword_score =
                   _compute_keyword_optimization(m_analysis).keyword_optimization_score
            /\ b.link_score = _compute_link_quality(m_analysis).overall_link_quality_score
            /\ b.image_score = _compute_image_optimization(m_analysis).overall_image_score

\* an analysis was aggregated whose five composites are all non-zero and whose
\* content composite differs from its text/HTML ratio score
C8_Witness ==
    /\ OverallCalled
    /\ \A k \in DOMAIN m_overall.val.score_breakdown : m_overall.val.score_breakdown[k] # Zero
    /\ _compute_content_quality(m_analysis).text_html_ratio_score
           # m_overall.val.score_breakdown.content_quality

\* C9, as stated: for every analysis _compute_overall_score returns an
\* overall_score in [0, 1] and every value of score_breakdown in [0, 1].
C9_OverallScoreInUnitRange ==
    OverallCalled =>
        /\ InUnit(m_overall.val.overall_score)
        /\ \A k \in DOMAIN m_overall.val.score_breakdown :
              InUnit(m_overall.val.score_breakdown[k])

\* the sum of the values of a weight table
WeightSum(table) == RSumOver(table, DOMAIN table)

\* C10: each fixed weight table of a composite score sums to exactly 1.0: the
\* two SEO aggregators, the readability and the crawlability overall scores;
\* stated of every state in which an aggregator has applied its table.
C10_WeightsSumToOne ==
    OverallCalled =>
        /\ WeightSum(weights) = One
        /\ WeightSum(weights100) = One
        /\ WeightSum(readability_weights) = One
        /\ WeightSum(crawlability_weights) = One

\* the 0..1 aggregator has applied its weight table to composites that are
\* not all zero
C10_Witness ==
    /\ OverallCalled
    /\ m_overall.val.overall_score # Zero
    /\ m_overall.val.score_breakdown.technical_score # Zero

---------------------------------------------------------------------------
(* Claims about SEOMetrics (0..100), checked under SpecAggregate *)

ReportKeys100 == {"content_quality", "technical_score", "keyword_optimization",
                  "link_quality", "image_optimization", "readability",
                  "recommendations", "overall_score"}

\* every section is present and complete, and there is at least one top keyword
WellFormed100(a) ==
    /\ Returned(SubAnalyses(a))
    /\ SubAnalyses(a).val.keyword_optimization.total_keywords >= 1

\* C7, as stated: for every well-formed analysis, compute_metrics of the 0..100
\* module returns a report with its eight keys (the calls between
\* compute_metrics and _compute_overall_score come to an end).
C7_AggregatorReturnsReport ==
    (agg_outcome.exc # "pending" /\ WellFormed100(agg_analysis)) =>
        /\ Returned(agg_outcome)
        /\ DOMAIN agg_outcome.val = ReportKeys100

---------------------------------------------------------------------------
(* Claims about the range scorers, checked under SpecRange *)

NormCalled == rs_norm # <<Pending, Pending>>
RangeCalled == rs_range # <<Pending, Pending>>
InRange(v) == RLe(rs_min, v.r) /\ RLe(v.r, rs_max)
OutOfRange(v) == RLt(v.r, rs_min) \/ RLt(rs_max, v.r)

\* C1, as stated: whenever min <= value <= max (the zero-width range and
\* value = min = max = 0 included), _normalize_score returns 1.0 and
\* _calculate_range_score returns 100.
C1_InRangeIsFullScore ==
    InRange(rs_value) =>
        /\ NormCalled => rs_norm[1] = Return(One)
        /\ RangeCalled => rs_range[1] = Return(Hundred)

\* C1, amended: whenever min <= value <= max, _calculate_range_score returns
\* 100, and _normalize_score returns 1.0 unless value = min = max = 0, where it
\* returns 0.0.
C1_InRangeIsFullScoreUnlessAllZero ==
    InRange(rs_value) =>
        /\ NormCalled =>
              rs_norm[1] = Return(IF rs_value.r = Zero /\ rs_min = Zero /\ rs_max = Zero
                                  THEN Zero ELSE One)
        /\ RangeCalled => rs_range[1] = Return(Hundred)

\* both scorers have judged the value min = max of a zero-width range other than [0, 0]
C1_Witness ==
    /\ NormCalled /\ RangeCalled
    /\ rs_min = rs_max /\ rs_value.r = rs_min /\ rs_min # Zero
    /\ rs_norm[1] = Return(One) /\ rs_range[1] = Return(Hundred)

\* C2, as stated: for 0 < min <= max and value >= 0 outside the range, both
\* scorers return a score s with 0 <= s < the maximum score.
C2_OutOfRangeScoreInBounds ==
    (RLt(Zero, rs_min) /\ RLe(rs_min, rs_max) /\ RLe(Zero, rs_value.r) /\ OutOfRange(rs_value)) =>
        /\ NormCalled =>
              /\ Returned(rs_norm[1])
              /\ RLe(Zero, rs_norm[1].val) /\ RLt(rs_norm[1].val, One)
        /\ RangeCalled =>
              /\ Returned(rs_range[1])
              /\ RLe(Zero, rs_range[1].val) /\ RLt(rs_range[1].val, Hundred)

\* v1 lies farther from the range than v2, on the same side of it
Farther(v1, v2) ==
    \/ RLt(v1.r, v2.r) /\ RLt(v2.r, rs_min)
    \/ RLt(rs_max, v2.r) /\ RLt(v2.r, v1.r)

\* C3: for 0 < min < max and two values on the same side of the range, the
\* farther value never scores higher than the nearer one, in both scorers.
C3_Monotone ==
    (RLt(Zero, rs_min) /\ RLt(rs_min, rs_max) /\ Farther(rs_value, rs_value2)) =>
        /\ NormCalled =>
              /\ Returned(rs_norm[1]) /\ Returned(rs_norm[2])
              /\ RLe(rs_norm[1].val, rs_norm[2].val)
        /\ RangeCalled =>
              /\ Returned(rs_range[1]) /\ Returned(rs_range[2])
              /\ RLe(rs_range[1].val, rs_range[2].val)

\* two values above the range were scored, the farther one strictly lower
C3_Witness ==
    /\ NormCalled /\ RangeCalled
    /\ RLt(Zero, rs_min) /\ RLt(rs_min, rs_max)
    /\ RLt(rs_max, rs_value2.r) /\ RLt(rs_value2.r, rs_value.r)
    /\ RLt(rs_norm[1].val, rs_norm[2].val)
    /\ RLt(rs_range[1].val, rs_range[2].val)

\* C4, as stated: on a range with min = 0 or min = max neither scorer raises.
C4_NoFaultOnDegenerateRange ==
    (rs_min = Zero \/ rs_min = rs_max) =>
        /\ NormCalled => Returned(rs_norm[1])
        /\ RangeCalled => Returned(rs_range[1])


---------------------------------------------------------------------------
(* Claims about readability, checked under SpecReadability *)

LevelCalled == rd_level.exc # "pending"
ReportCalled == rd_report.exc # "pending"
SeoReadabilityCalled == rd_seo.exc # "pending"

\* the level the tier table gives a score
Tier(s) ==
    CASE RLe(Whole(90), s) -> "Very Easy"
      [] RLe(Whole(80), s) /\ RLt(s, Whole(90)) -> "Easy"
      [] RLe(Whole(70), s) /\ RLt(s, Whole(80)) -> "Fairly Easy"
      [] RLe(Whole(60), s) /\ RLt(s, Whole(70)) -> "Standard"
      [] RLe(Whole(50), s) /\ RLt(s, Whole(60)) -> "Fairly Difficult"
      [] RLe(Whole(30), s) /\ RLt(s, Whole(50)) -> "Difficult"
      [] RLe(Zero, s) /\ RLt(s, Whole(30)) -> "Very Difficult"
      [] RLt(s, Zero) -> "Unknown"

\* C11, as stated: every Flesch score maps to the level of the tier table
\* (inclusive lower bounds, a negative score 'Unknown'), both for
\* SEOMetrics._get_readability_level and for the level that
\* ReadabilityAnalyzer._calculate_flesch_score reports with its score.
C11_TierOfEveryScore ==
    /\ (LevelCalled /\ IsNum(rd_score)) => rd_level.val = Tier(rd_score.r)
    /\ (ReportCalled /\ Returned(rd_report)
            /\ "level" \in DOMAIN rd_report.val.flesch_reading_ease) =>
           rd_report.val.flesch_reading_ease.level =
               Tier(rd_report.val.flesch_reading_ease.score)

\* the level the authors' tests expect at their sample points
SampleLevels ==
    {<<95, "Very Easy">>, <<85, "Easy">>, <<75, "Fairly Easy">>, <<65, "Standard">>,
     <<55, "Fairly Difficult">>, <<25, "Difficult">>, <<15, "Very Difficult">>,
     <<-1, "Unknown">>}

NoWords(text) == text.t = "str" /\ \A i \in DOMAIN text.s : text.s[i] \in Whitespace

\* C13: for a text without words (the empty string, blanks, a missing
\* main_content) the Flesch score is 0 and nothing is raised:
\* analyze_readability reports score 0 and is_optimal False, and
\* _compute_readability reports 0 for flesch_reading_ease,
\* avg_sentence_length and avg_word_length.
C13_FleschGuardOnEmptyInput ==
    /\ (ReportCalled /\ NoWords(rd_text)) =>
           /\ Returned(rd_report)
           /\ rd_report.val.flesch_reading_ease.score = Zero
           /\ rd_report.val.flesch_reading_ease.is_optimal = FALSE
    /\ (SeoReadabilityCalled
            /\ ("main_content" \in DOMAIN rd_content.d => NoWords(rd_content.d.main_content))) =>
           /\ Returned(rd_seo)
           /\ rd_seo.val.flesch_reading_ease = Zero
           /\ rd_seo.val.avg_sentence_length = Zero
           /\ rd_seo.val.avg_word_length = Zero

\* both readability functions have scored the empty string
C13_Witness ==
    /\ ReportCalled /\ SeoReadabilityCalled
    /\ rd_text = Text(EmptyText) /\ rd_content = Dict([main_content |-> rd_text])
    /\ rd_report.val.flesch_reading_ease.score = Zero
    /\ rd_seo.val.flesch_reading_ease = Zero

\* the number of sentence terminators of a text
TerminatorCount(q) == Cardinality({i \in DOMAIN q : q[i] \in SentenceEnd})

\* C14, as stated: for a text of n >= 1 sentences, each ended by one
\* terminator, _compute_readability divides the number of whitespace-separated
\* tokens by n; for the sample text of two sentences and nine words
\* avg_sentence_length is 4.5.
C14_SentenceCountIsTerminatorCount ==
    (SeoReadabilityCalled /\ rd_text.s \in SentenceTexts) =>
        /\ rd_seo.val.avg_sentence_length =
               Rat(Len(Split(rd_text.s)), TerminatorCount(rd_text.s))
        /\ rd_text.s = TwoSentences => rd_seo.val.avg_sentence_length = Rat(9, 2)

\* the scores the three optimal flags can give
OverallScores == {Rat(50, 100), Rat(65, 100), Rat(70, 100), Rat(80, 100), Rat(85, 100), One}

\* C15: the overall readability score is 0.4*f + 0.3*s + 0.3*l, each of f, s,
\* l being 1.0 for an optimal result and 0.5 otherwise; it is one of 0.5,
\* 0.65, 0.7, 0.8, 0.85, 1.0, it is 0.5 for empty input, and the explanation
\* is never 'Poor readability'.
C15_OverallReadabilityScore ==
    (ReportCalled /\ Returned(rd_report)) =>
        LET r == rd_report.val
            Half(flag) == IF flag THEN One ELSE Rat(1, 2)
        IN  /\ r.overall_score.score =
                   RAdd(RAdd(RMul(Rat(4, 10), Half(r.flesch_reading_ease.is_optimal)),
                             RMul(Rat(3, 10), Half(r.average_sentence_length.is_optimal))),
                        RMul(Rat(3, 10), Half(r.lexical_complexity.is_optimal)))
            /\ r.overall_score.score \in OverallScores
            /\ r.overall_score.explanation # "Poor readability"
            /\ NoWords(rd_text) => r.overall_score.score = Rat(1, 2)

\* a long sentence of plain words was scored: Flesch optimal, the sentence
\* length not, the lexical complexity not
C15_Witness ==
    /\ ReportCalled /\ Returned(rd_report)
    /\ rd_report.val.overall_score.components =
           [flesch |-> One, sentence_length |-> Rat(1, 2), lexical |-> Rat(1, 2)]
    /\ rd_report.val.overall_score.score = Rat(7, 10)

---------------------------------------------------------------------------
(* Claims about the sub-analysers, checked under SpecSections *)

RecsCalled == an_recs.exc # "pending"
Image100Called == an_image100.exc # "pending"
ImageCalled == an_image.exc # "pending"

\* the sections of an_analysis the rules read
TitleLength == an_analysis.d.meta_tags.d.title.d.length.r
MetaDescriptionLength == an_analysis.d.meta_tags.d.meta_description.d.length.r
ImagesOf == an_analysis.d.image_analysis.d
TechnicalOf == an_analysis.d.technical_seo.d
WellFormedImages == {"total_images", "images_with_alt"} \subseteq DOMAIN ImagesOf

\* the rule table: <<type, priority, first words of the message, condition>>
RuleTable ==
    <<<<"title", "high", "Title length (",
        RLt(TitleLength, Whole(50)) \/ RLt(Whole(60), TitleLength)>>,
      <<"meta_description", "high", "Meta description length (",
        RLt(MetaDescriptionLength, Whole(120)) \/ RLt(Whole(160), MetaDescriptionLength)>>,
      <<"images", "medium", "Only ",
        /\ ImagesOf.total_images.r[1] >= 1
        /\ 100 * ImagesOf.images_with_alt.r[1] < 80 * ImagesOf.total_images.r[1]>>,
      <<"technical", "high", "Add viewport meta tag for mobile optimization",
        ~TechnicalOf.has_viewport.r[1] = 1>>,
      <<"technical", "medium", "Consider adding structured data for better search results",
        ~TechnicalOf.has_structured_data.r[1] = 1>>>>

\* C16: for a well-formed analysis _generate_recommendations returns exactly
\* the entries of the rule table whose condition holds, in the order of the
\* table and each at most once (so at most five); with title length 55 and
\* meta-description length 0 there is a high-priority meta_description entry
\* and no title entry.
C16_RecommendationRuleTable ==
    (RecsCalled /\ WellFormedImages) =>
        LET Fires(rule) == rule[4]
            fired == SelectSeq(RuleTable, Fires)
            recs == an_recs.val
        IN  /\ Returned(an_recs)
            /\ Len(recs) = Len(fired)
            /\ Len(recs) <= 5
            /\ \A i \in DOMAIN recs :
                  /\ recs[i].type = fired[i][1]
                  /\ recs[i].priority = fired[i][2]
                  /\ recs[i].message[1] = fired[i][3]
            /\ (TitleLength = Whole(55) /\ MetaDescriptionLength = Zero) =>
                  /\ \E i \in DOMAIN recs :
                        recs[i].type = "meta_description" /\ recs[i].priority = "high"
                  /\ \A i \in DOMAIN recs : recs[i].type # "title"

\* the scenario page was analysed, with every rule but the title rule firing
C16_Witness ==
    /\ RecsCalled /\ WellFormedImages
    /\ TitleLength = Whole(55) /\ MetaDescriptionLength = Zero
    /\ Len(an_recs.val) = 4
    /\ an_recs.val[1].type = "meta_description"

\* C20: with total_images == 0 (or, for src/seo_metrics.py, without the key)
\* _compute_image_optimization returns 0 for its three scores and
\* _analyze_image_optimization returns percentage 0 and score 0, nothing
\* raised; and with 0 <= images_with_alt, images_with_dimensions <=
\* total_images the three scores of _compute_image_optimization are in [0, 1].
C20_ImageScorersGuardZeroImages ==
    /\ (ImageCalled /\ ("total_images" \in DOMAIN ImagesOf => ImagesOf.total_images = I(0))) =>
           /\ Returned(an_image)
           /\ an_image.val.alt_text_score = Zero
           /\ an_image.val.dimensions_score = Zero
           /\ an_image.val.overall_image_score = Zero
    /\ (Image100Called /\ WellFormedImages /\ ImagesOf.total_images = I(0)) =>
           /\ Returned(an_image100)
           /\ an_image100.val.alt_text.percentage = Zero
           /\ an_image100.val.alt_text.score = Zero
    /\ (ImageCalled /\ WellFormedImages) =>
           /\ Returned(an_image)
           /\ InUnit(an_image.val.alt_text_score)
           /\ InUnit(an_image.val.dimensions_score)
           /\ InUnit(an_image.val.overall_image_score)

\* both image scorers have scored a page without images
C20_Witness ==
    /\ ImageCalled /\ Image100Called
    /\ WellFormedImages /\ ImagesOf.total_images = I(0)
    /\ an_image.val.overall_image_score = Zero
    /\ an_image100.val.alt_text.score = Zero

\* the recommendations hold the medium-priority 'images' entry
HasImagesEntry ==
    \E i \in DOMAIN an_recs.val :
        an_recs.val[i].type = "images" /\ an_recs.val[i].priority = "medium"

\* the alt-text percentage _analyze_image_optimization reports is below the floor
ReportedBelowFloor == RLt(an_image100.val.alt_text.percentage, Whole(80))

\* C29, as stated: for every analysis with 0 <= images_with_alt <=
\* total_images, total_images == 0 included, the recommendations hold the
\* medium 'images' entry iff the alt-text percentage reported by
\* _analyze_image_optimization is below 80, i.e. iff its score is below 100.
\* Violated by a page without images: 0% and score 0 are reported and no
\* recommendation is made.
C29_ImageScorerAndRecommendationAgree_AsStated ==
    (RecsCalled /\ Image100Called /\ WellFormedImages) =>
        /\ HasImagesEntry <=> ReportedBelowFloor
        /\ ReportedBelowFloor <=> RLt(an_image100.val.alt_text.score, Hundred)

\* C29, amended: for every analysis with 0 <= images_with_alt <=
\* total_images the alt-text percentage reported is below 80 iff the score is
\* below 100; with at least one image the recommendations hold the medium
\* 'images' entry iff that percentage is below 80; with no image the
\* percentage and the score are 0 and there is no 'images' entry.
C29_ImageScorerAndRecommendationAgree ==
    (RecsCalled /\ Image100Called /\ WellFormedImages) =>
        /\ Returned(an_recs) /\ Returned(an_image100)
        /\ ReportedBelowFloor <=> RLt(an_image100.val.alt_text.score, Hundred)
        /\ RLt(Zero, ImagesOf.total_images.r) => (HasImagesEntry <=> ReportedBelowFloor)
        /\ ImagesOf.total_images = I(0) =>
              /\ ~HasImagesEntry
              /\ an_image100.val.alt_text.percentage = Zero
              /\ an_image100.val.alt_text.score = Zero

\* a page of five images, four with alt text, was scored and advised: 80% is
\* reported with score 100 and there is no 'images' entry
C29_Witness ==
    /\ RecsCalled /\ Image100Called /\ WellFormedImages
    /\ ImagesOf.total_images = I(5)
    /\ ImagesOf.images_with_alt = I(4)
    /\ an_image100.val.alt_text.percentage = Whole(80)
    /\ an_image100.val.alt_text.score = Hundred
    /\ ~HasImagesEntry

---------------------------------------------------------------------------
(* Claims about the robots.txt analysis, checked under SpecCrawl *)

DirectiveCalled == cr_directive.exc # "pending"
SummaryCalled == cr_summary.exc # "pending"

\* the lines of a text
RECURSIVE SplitLines(_)
SplitLines(q) ==
    LET to == SkipLine(q, 1)
    IN  IF to > Len(q) THEN <<q>>
        ELSE <<SubSeq(q, 1, to - 1)>> \o SplitLines(SubSeq(q, to + 1, Len(q)))

AgentPrefix == <<"U", "s", "e", "r", "-", "a", "g", "e", "n", "t", ":", " ">>
DisallowPrefix == <<"D", "i", "s", "a", "l", "l", "o", "w", ":", " ">>
CrawlDelayPrefix == <<"C", "r", "a", "w", "l", "-", "d", "e", "l", "a", "y", ":", " ">>
StartsWith(line, prefix) == Len(line) >= Len(prefix) /\ SubSeq(line, 1, Len(prefix)) = prefix
After(line, prefix) == SubSeq(line, Len(prefix) + 1, Len(line))

\* the lines of the section opened by line i: those up to the next
\* "User-agent:" line
SectionLines(lines, i) ==
    LET next == Least({j \in i + 1 .. Len(lines) + 1 :
                          j = Len(lines) + 1 \/ StartsWith(lines[j], AgentPrefix)})
    IN  SubSeq(lines, i + 1, next - 1)

\* the paths of the "Disallow: <path>" lines of a section, in file order
DisallowPathsOf(section) ==
    LET IsDisallow(line) == StartsWith(line, DisallowPrefix) /\ Len(line) > Len(DisallowPrefix)
        found == SelectSeq(section, IsDisallow)
    IN  [k \in DOMAIN found |-> After(found[k], DisallowPrefix)]

\* the integer of the "Crawl-delay:" line of a section, None without one
CrawlDelayOf(section) ==
    LET IsDelay(line) == StartsWith(line, CrawlDelayPrefix)
        found == SelectSeq(section, IsDelay)
    IN  IF found = <<>> THEN PyNone
        ELSE Num(Whole(int(After(found[1], CrawlDelayPrefix))))

\* the paths but the empty ones, which a "Disallow:" line without a path gives
EmptyDisallowsOut(paths) ==
    LET NotEmpty(path) == path # <<>>
    IN  SelectSeq(paths, NotEmpty)

ScenarioRobots ==
    <<"U", "s", "e", "r", "-", "a", "g", "e", "n", "t", ":", " ", "G", "P", "T", "B", "o", "t",
      "\n", "D", "i", "s", "a", "l", "l", "o", "w", ":", " ", "/", "p", "r", "i", "v", "a",
      "t", "e", "/", "\n", "C", "r", "a", "w", "l", "-", "d", "e", "l", "a", "y", ":", " ",
      "1", "0">>

\* C17: when a user agent of the bot has a "User-agent: <alias>" section with
\* k >= 1 "Disallow: <path>" lines, _analyze_bot_directive returns is_allowed
\* False, exactly those k paths in file order, the integer of the section's
\* "Crawl-delay:" line (None without one) and the alias among
\* user_agents_found; the scenario text gives False, ['/private/'], 10.
C17_BotDirectiveExtraction ==
    DirectiveCalled =>
        LET lines == SplitLines(cr_robots)
            result == cr_directive.val
        IN  /\ \A alias \in Range(UserAgents(BotInfo(cr_bot))) : \A i \in DOMAIN lines :
                  (/\ lines[i] = AgentPrefix \o alias
                   /\ DisallowPathsOf(SectionLines(lines, i)) # <<>>) =>
                      /\ ~result.is_allowed
                      /\ EmptyDisallowsOut(result.disallowed_paths)
                             = DisallowPathsOf(SectionLines(lines, i))
                      /\ result.crawl_delay = CrawlDelayOf(SectionLines(lines, i))
                      /\ alias \in Range(result.user_agents_found)
            /\ (cr_robots = ScenarioRobots /\ cr_bot = "GPTBot") =>
                  /\ ~result.is_allowed
                  /\ result.disallowed_paths = <<<<"/", "p", "r", "i", "v", "a", "t", "e", "/">>>>
                  /\ result.crawl_delay = Num(Whole(10))

\* the user agent occurs in the text, whatever the case of the letters
Occurs(alias, q) ==
    \E i \in 1 .. Len(q) - Len(alias) + 1 :
        \A j \in DOMAIN alias : LowerChar(q[i + j - 1]) = LowerChar(alias[j])

\* C18: when no user agent of the bot occurs anywhere in robots.txt, in any
\* case, _analyze_bot_directive returns is_allowed True, no disallowed path, no
\* crawl delay, no user agent found and the explanation "No specific
\* directives found for <company> bots", whatever the text holds for others.
C18_UnmatchedBotsAreAllowed ==
    (/\ DirectiveCalled
     /\ \A alias \in Range(UserAgents(BotInfo(cr_bot))) : ~Occurs(alias, cr_robots)) =>
        /\ cr_directive.val.is_allowed
        /\ cr_directive.val.disallowed_paths = <<>>
        /\ cr_directive.val.crawl_delay = PyNone
        /\ cr_directive.val.user_agents_found = <<>>
        /\ cr_directive.val.explanation
               = <<"No specific directives found for ", BotInfo(cr_bot).company, " bots">>

\* a bot no line names was looked up in a text that disallows a path to all
C18_Witness ==
    /\ DirectiveCalled
    /\ cr_bot = "CCBot"
    /\ cr_robots = <<"U", "s", "e", "r", "-", "a", "g", "e", "n", "t", ":", " ", "*", "\n", "D", "i", "s",
          "a", "l", "l", "o", "w", ":", " ", "/", "p", "r", "i", "v", "a", "t", "e", "/">>
    /\ cr_directive.val.is_allowed

\* the companies of the bots of the mapping that are allowed, or that are not
CompaniesOf(allowed) ==
    LET Is(entry) == entry[2].is_allowed = allowed
        found == SelectSeq(cr_directives, Is)
    IN  [k \in DOMAIN found |-> found[k][2].company]

\* the summary holds, from index from on, the label and then the companies
\* with ", " between them
ListedAt(summary, from, label, companies) ==
    /\ summary[from] = label
    /\ \A k \in DOMAIN companies :
          /\ summary[from + 2 * k - 1] = companies[k]
          /\ k < Len(companies) => summary[from + 2 * k] = ", "

\* C19: _generate_llm_bot_summary lists the company of every bot of the
\* mapping once, under "Allowed: " when is_allowed and under "Blocked: "
\* otherwise, in the order of the mapping; an empty part is left out, the two
\* parts are joined by " | " with the allowed first, and "No LLM bot
\* directives found" is the summary of the empty mapping only.
C19_BotSummaryIsPartition ==
    SummaryCalled =>
        LET summary == cr_summary.val
            allowed == CompaniesOf(TRUE)
            blocked == CompaniesOf(FALSE)
            a == 2 * Len(allowed)
            b == 2 * Len(blocked)
        IN  /\ summary = <<"No LLM bot directives found">> <=> cr_directives = <<>>
            /\ cr_directives # <<>> =>
                  /\ Len(summary) = a + b + (IF a > 0 /\ b > 0 THEN 1 ELSE 0)
                  /\ a > 0 => ListedAt(summary, 1, "Allowed: ", allowed)
                  /\ (a > 0 /\ b > 0) => summary[a + 1] = " | "
                  /\ b > 0 => ListedAt(summary, IF a > 0 THEN a + 2 ELSE 1, "Blocked: ", blocked)

\* a mapping with two bots allowed and one blocked between them was summarised
C19_Witness ==
    /\ SummaryCalled
    /\ Len(cr_directives) = 3
    /\ cr_directives[1][2].is_allowed /\ ~cr_directives[2][2].is_allowed
    /\ cr_directives[3][2].is_allowed
    /\ cr_summary.val = <<"Allowed: ", cr_directives[1][2].company, ", ",
                          cr_directives[3][2].company, " | ",
                          "Blocked: ", cr_directives[2][2].company>>

\* C30: whatever the text and the user agents of the bot, the result of
\* _analyze_bot_directive has is_allowed exactly when it has no disallowed
\* path, and a crawl delay or a disallowed path only with a user agent found.
C30_AllowedIffNoDisallowedPath ==
    DirectiveCalled =>
        /\ cr_directive.val.is_allowed <=> cr_directive.val.disallowed_paths = <<>>
        /\ (cr_directive.val.crawl_delay # PyNone \/ cr_directive.val.disallowed_paths # <<>>)
               => cr_directive.val.user_agents_found # <<>>

\* a bot of two user agents was looked up, one of them found with a
\* "Disallow:" line that names no path
C30_Witness ==
    /\ DirectiveCalled
    /\ cr_bot = "ClaudeBot"
    /\ Len(cr_directive.val.user_agents_found) = 1
    /\ cr_directive.val.disallowed_paths = <<<<>>>>
    /\ ~cr_directive.val.is_allowed

\* the line opens a section: "User-agent:" in any case
IsAgentLine(line) == StartsWith(Lower(line), UserAgentField)

\* the block of the user agent: its first "User-agent: <alias>" line and the
\* lines up to the next "User-agent:" line
OwnBlock(lines, alias) ==
    LET opens == {i \in DOMAIN lines : Lower(lines[i]) = Lower(AgentPrefix \o alias)}
    IN  IF opens = {} THEN <<>>
        ELSE LET next == Least({j \in Least(opens) + 1 .. Len(lines) + 1 :
                                   j = Len(lines) + 1 \/ IsAgentLine(lines[j])})
             IN  SubSeq(lines, Least(opens), next - 1)

\* the blocks of the user agents of the bot, one after the other
RECURSIVE OwnBlocks(_, _)
OwnBlocks(lines, user_agents) ==
    IF user_agents = <<>> THEN <<>>
    ELSE OwnBlock(lines, Head(user_agents)) \o OwnBlocks(lines, Tail(user_agents))

\* the text of the lines
RECURSIVE JoinLines(_)
JoinLines(lines) ==
    IF lines = <<>> THEN <<>>
    ELSE IF Len(lines) = 1 THEN lines[1]
    ELSE lines[1] \o <<"\n">> \o JoinLines(Tail(lines))

\* C26: the lines outside the blocks of the bot's own user agents, each block
\* ending before the next "User-agent:" line, never change is_allowed,
\* disallowed_paths or crawl_delay: the result is that of the text of the own
\* blocks alone; in the robots.txt of the tests ClaudeBot, with "Allow: /" and
\* "Crawl-delay: 5" in its block, is allowed with crawl_delay 5.
C26_BlocksAreIsolated ==
    DirectiveCalled =>
        LET user_agents == UserAgents(BotInfo(cr_bot))
            own == _analyze_bot_directive(
                       JoinLines(OwnBlocks(SplitLines(cr_robots), user_agents)),
                       user_agents, BotInfo(cr_bot))
        IN  /\ cr_directive.val.is_allowed = own.is_allowed
            /\ cr_directive.val.disallowed_paths = own.disallowed_paths
            /\ cr_directive.val.crawl_delay = own.crawl_delay
            /\ (cr_robots = sample_robots_txt /\ cr_bot = "ClaudeBot") =>
                  /\ cr_directive.val.is_allowed
                  /\ cr_directive.val.crawl_delay = Num(Whole(5))

\* ClaudeBot was looked up in the robots.txt of the tests, where the sections
\* before and after its own hold Disallow lines
C26_Witness ==
    /\ DirectiveCalled
    /\ cr_robots = sample_robots_txt
    /\ cr_bot = "ClaudeBot"
    /\ cr_directive.val.crawl_delay = Num(Whole(5))
    /\ cr_directive.val.user_agents_found # <<>>

---------------------------------------------------------------------------
(* Claims about AIReadabilityAnalyzer, checked under SpecStructure *)

StructureCalled == ai_structure.exc # "pending"
HierarchyCalled == ai_hierarchy.exc # "pending"

\* what a dict holds under a key, Absent when the key or the dict is missing
Under(x, key) ==
    IF x = Absent THEN Absent ELSE IF key \in DOMAIN x.d THEN x.d[key] ELSE Absent
OrElse(x, dflt) == IF x = Absent THEN dflt ELSE x

TitleOf ==
    OrElse(Under(Under(Under(ai_analysis, "meta_tags"), "title"), "content"), Text(<<>>)).s
MetaDescriptionOf ==
    OrElse(Under(Under(Under(ai_analysis, "meta_tags"), "meta_description"), "content"),
           Text(<<>>)).s
H1CountOf ==
    OrElse(Under(Under(Under(ai_analysis, "content_analysis"), "heading_structure"), "h1"),
           I(0)).r[1]
MainContentOf ==
    OrElse(Under(Under(ai_analysis, "content_analysis"), "main_content"), Text(<<>>)).s

\* the words of a text: a word ends where white space or the end follows
WordsIn(q) ==
    Cardinality({i \in DOMAIN q :
                    q[i] \notin Whitespace /\ (i = Len(q) \/ q[i + 1] \in Whitespace)})

\* C21: analyze_seo_structure never raises, missing keys being read as an
\* empty title, an empty description, no h1 and an empty content; the title is
\* optimal iff 50 <= len <= 60 ("Too short" iff below 50, "Too long" iff above
\* 60), the meta description iff 0 < len <= 155 ("Missing" iff 0, "Too long"
\* iff above 155), the H1 iff there is exactly one ("Missing" iff none,
\* "Multiple H1 tags" iff more), the content iff it has 300 words or more; for
\* {} the four flags are False.
C21_StructureFlags ==
    StructureCalled =>
        /\ Returned(ai_structure)
        /\ LET title == ai_structure.val.title_tag_length
               desc == ai_structure.val.meta_description_length
               h1 == ai_structure.val.h1_tag_presence
               content == ai_structure.val.content_word_count
           IN  /\ title.optimal <=> (50 <= Len(TitleOf) /\ Len(TitleOf) <= 60)
               /\ title.explanation[1] = "Too short" <=> Len(TitleOf) < 50
               /\ title.explanation[1] = "Too long" <=> Len(TitleOf) > 60
               /\ desc.optimal <=> (0 < Len(MetaDescriptionOf) /\ Len(MetaDescriptionOf) <= 155)
               /\ desc.explanation[1] = "Missing" <=> Len(MetaDescriptionOf) = 0
               /\ desc.explanation[1] = "Too long" <=> Len(MetaDescriptionOf) > 155
               /\ h1.optimal <=> H1CountOf = 1
               /\ h1.explanation[1] = "Missing" <=> H1CountOf = 0
               /\ h1.explanation[1] = "Multiple H1 tags" <=> H1CountOf > 1
               /\ content.optimal <=> WordsIn(MainContentOf) >= 300
               /\ ai_analysis = EmptyDict =>
                      ~(title.optimal \/ desc.optimal \/ h1.optimal \/ content.optimal)

\* a page with a title of 61 characters, no meta description, one h1 and 299
\* words two blanks apart was analysed
C21_Witness ==
    /\ StructureCalled
    /\ Len(TitleOf) = 61
    /\ "meta_description" \notin DOMAIN ai_analysis.d.meta_tags.d
    /\ H1CountOf = 1
    /\ Len(MainContentOf) = 897
    /\ ai_structure.val.title_tag_length.explanation[1] = "Too long"
    /\ ai_structure.val.h1_tag_presence.optimal
    /\ ~ai_structure.val.content_word_count.optimal

\* the first heading that is more than one level deeper than the one before it
Skips(levels) == {i \in 2 .. Len(levels) : levels[i] > levels[i - 1] + 1}

\* C22: _check_heading_hierarchy returns True iff there is a heading and none
\* is more than one level deeper than the heading before it, moves up and the
\* level of the first heading being free; without headings it returns False
\* with "No headings found.", and on a skip the explanation names the first
\* pair h<prev> to h<curr> that skips.
C22_HeadingHierarchy ==
    HierarchyCalled =>
        LET optimal == ai_hierarchy.val[1]
            explanation == ai_hierarchy.val[2]
        IN  /\ optimal <=> (ai_levels # <<>> /\ Skips(ai_levels) = {})
            /\ ai_levels = <<>> => explanation = <<"No headings found.">>
            /\ Skips(ai_levels) # {} =>
                  LET i == CHOOSE k \in Skips(ai_levels) : \A j \in Skips(ai_levels) : k <= j
                  IN  explanation = <<"Heading level skipped: h", ai_levels[i - 1],
                                      " to h", ai_levels[i], ".">>

\* headings that move up by two levels and then skip one were checked
C22_Witness ==
    /\ HierarchyCalled
    /\ ai_levels = <<3, 1, 3, 6>>
    /\ ai_hierarchy.val[1] = FALSE
    /\ ai_hierarchy.val[2][2] = 1


---------------------------------------------------------------------------
(* Claims about the overall crawlability score, checked under SpecCrawlScore *)

CrawlScoreCalled == cs_overall.exc # "pending"

UnitInterval(r) == RLe(Zero, r) /\ RLe(r, One)

ListedBots == cs_parts.d.llm_bot_analysis.d.bot_directives.d

\* the page is indexable, its URL is in the sitemap, text ratio and load
\* time are optimal and every listed bot is allowed
AllOptimal ==
    /\ Truthy(cs_parts.d.indexability.d.is_indexable)
    /\ Truthy(cs_parts.d.sitemap_status.d.url_in_sitemap)
    /\ Truthy(cs_parts.d.text_ratio.d.is_optimal)
    /\ "is_optimal" \in DOMAIN cs_parts.d.load_time.d
    /\ Truthy(cs_parts.d.load_time.d.is_optimal)
    /\ \A b \in DOMAIN ListedBots : Truthy(ListedBots[b].d.is_allowed)

\* a robots.txt was found and it lists at least one bot
BotsListed ==
    /\ Truthy(cs_parts.d.llm_bot_analysis.d.robots_txt_exists)
    /\ DOMAIN ListedBots # {}

\* the tier of a score: Excellent from 0.8, Good from 0.6, Fair from 0.4, else Poor
ScoreTier(score) ==
    CASE RLe(Rat(8, 10), score) -> "Excellent crawlability"
      [] RLe(Rat(6, 10), score) /\ RLt(score, Rat(8, 10)) -> "Good crawlability"
      [] RLe(Rat(4, 10), score) /\ RLt(score, Rat(6, 10)) -> "Fair crawlability"
      [] RLt(score, Rat(4, 10)) -> "Poor crawlability"

\* the components and the score lie in [0, 1] and the explanation is the
\* tier of the score
ScoreInRangeAndTiered ==
    /\ Returned(cs_overall)
    /\ \A c \in DOMAIN cs_overall.val.components : UnitInterval(cs_overall.val.components[c])
    /\ UnitInterval(cs_overall.val.score)
    /\ cs_overall.val.explanation = ScoreTier(cs_overall.val.score)

\* C23, as stated: every component and the score lie in [0, 1], the
\* explanation is the tier of the score, and the score is 1.0 ('Excellent
\* crawlability') whenever the page is indexable, in the sitemap, optimal in
\* text ratio and load time and every listed bot is allowed. Violated by a
\* site without robots.txt, or whose analysis lists no bot: the bot score is
\* then 0.0 or 0.5 and the score below 1.0.
C23_CrawlabilityOverallScore_AsStated ==
    CrawlScoreCalled =>
        /\ ScoreInRangeAndTiered
        /\ AllOptimal =>
              /\ cs_overall.val.score = One
              /\ cs_overall.val.explanation = "Excellent crawlability"

\* C23, amended: every component and the score lie in [0, 1], the explanation
\* is Excellent iff score >= 0.8, Good iff 0.6 <= score < 0.8, Fair iff
\* 0.4 <= score < 0.6, Poor iff score < 0.4, and the score is 1.0 when the
\* page is indexable, in the sitemap, optimal in text ratio and load time, a
\* robots.txt was found and every one of the bots it lists, at least one, is
\* allowed; with all else optimal and no robots.txt, or a robots.txt and no
\* bot listed, the score stays below 1.0.
C23_CrawlabilityOverallScore ==
    CrawlScoreCalled =>
        /\ ScoreInRangeAndTiered
        /\ AllOptimal /\ BotsListed =>
              /\ cs_overall.val.score = One
              /\ cs_overall.val.explanation = "Excellent crawlability"
        /\ AllOptimal /\ ~BotsListed => RLt(cs_overall.val.score, One)

\* the score of a page optimal throughout whose robots.txt allows each of
\* two listed bots
C23_Witness ==
    /\ CrawlScoreCalled
    /\ AllOptimal
    /\ BotsListed
    /\ Cardinality(DOMAIN ListedBots) = 2
    /\ cs_overall.val.score = One
    /\ cs_overall.val.components.llm_bot = One

---------------------------------------------------------------------------
(* Claims about one SEOMetrics instance, checked under SpecInstance *)

\* the call returned the default metrics, as a call failing in the try block does
FailedCall(k) == in_calls[k].result.val = _get_default_metrics

---------------------------------------------------------------------------
(* Claims about the scorers of SEOMetrics (0..1), checked under SpecScorers *)

SyllablesCalled == sc_syllables.exc # "pending"

\* the whitespace-separated words of the text, lowered
WordsOfText == Split(Lower(sc_text.s))

RECURSIVE SumOfWords(_, _)
\* the sum over the words from the i-th on of the per-word count, which is
\* the fallback of ReadabilityAnalyzer._count_syllables on that word
SumOfWords(words, i) ==
    IF i > Len(words) THEN 0
    ELSE SyllablesAfterWord(0, words[i]) + SumOfWords(words, i + 1)

\* C25, as stated: _count_syllables(text) is the sum over the words of text
\* of the per-word count floored at 1, hence at least the number of words.
\* Violated: the code keeps one running count, so the decrement for a
\* trailing 'e' and the floor act on the total ('a The' gives 1, not 2).
C25_PerWordSyllableFloor ==
    SyllablesCalled =>
        /\ sc_syllables.val = SumOfWords(WordsOfText, 1)
        /\ sc_syllables.val >= Len(WordsOfText)

HeadingScoreCalled == sc_heading_score.exc # "pending"

\* the number of headings of a level, 0 when the level is missing
HeadingsAt(level) ==
    IF level \in DOMAIN sc_headings.d THEN sc_headings.d[level].r ELSE Zero

\* the range score of the 0..1 convention: 1 inside [lo, hi], value / lo
\* below it, 1 - (value - hi) / hi above it
RangeScoreOf(value, lo, hi) ==
    IF RLt(value, lo) THEN RDiv(value, lo)
    ELSE IF RLt(hi, value) THEN RSub(One, RDiv(RSub(value, hi), hi))
    ELSE One

\* the density score of the headings: the range score of their number / 100
\* against [0.1, 0.3]
HeadingDensityScore ==
    RangeScoreOf(RDiv(RAdd(RAdd(HeadingsAt("h1"), HeadingsAt("h2")), HeadingsAt("h3")),
                      Hundred),
                 Rat(1, 10), Rat(3, 10))

\* C27, as stated: _calculate_heading_score returns (hierarchy + density) / 2
\* with hierarchy 1.0 only for exactly one h1 and at least one h2, else 0.5,
\* so that a page with two or more h1 headings does not get the 1.0 bonus.
\* Violated: the code tests h1 > 0, so two h1 and one h2 get the bonus.
C27_HeadingStructureScore ==
    HeadingScoreCalled =>
        sc_heading_score.val =
            RDiv(RAdd(IF HeadingsAt("h1") = One /\ RLe(One, HeadingsAt("h2"))
                      THEN One ELSE Rat(1, 2),
                      HeadingDensityScore),
                 Whole(2))

LinkQualityCalled == sc_link_score.exc # "pending"

\* the anchor text of a link, '' when it has none
AnchorText(link) == IF "text" \in DOMAIN link.d THEN link.d.text.s ELSE <<>>

\* some whitespace-separated token of the text, from its i-th to its j-th
\* character, is not a stopword
HasKeyword(q) ==
    \E i \in DOMAIN q : \E j \in i .. Len(q) :
        /\ \A k \in i .. j : q[k] \notin Whitespace
        /\ i = 1 \/ q[i - 1] \in Whitespace
        /\ j = Len(q) \/ q[j + 1] \in Whitespace
        /\ SubSeq(q, i, j) \notin stop_words

\* (L + B) / 2 of one link
LinkTextQuality(link) ==
    RDiv(RAdd(RangeScoreOf(Whole(Len(AnchorText(link))), Whole(3), Whole(10)),
              IF HasKeyword(AnchorText(link)) THEN One ELSE Rat(1, 2)),
         Whole(2))

RECURSIVE SumOfLinks(_, _)
SumOfLinks(links, i) ==
    IF i > Len(links) THEN Zero
    ELSE RAdd(LinkTextQuality(links[i]), SumOfLinks(links, i + 1))

\* the mean of (L + B) / 2 over the links, 0 for no links
MeanLinkTextQuality(links) ==
    IF links = <<>> THEN Zero ELSE RDiv(SumOfLinks(links, 1), Whole(Len(links)))

\* C28: for the internal and for the external list _calculate_link_text_score
\* gives the mean over the links of (L + B) / 2, L the range score of the
\* length of the anchor text against [3, 10], B 1.0 if some whitespace-
\* separated token is not a stopword and else 0.5, and 0 for an empty list;
\* overall_link_quality_score is the mean of the two scores.
C28_LinkTextQualityScore ==
    LinkQualityCalled =>
        LET internal == sc_links.d.internal_links.d.links.l
            external == sc_links.d.external_links.d.links.l
            quality == sc_link_score.val
        IN  /\ quality.internal_link_text_score = MeanLinkTextQuality(internal)
            /\ quality.external_link_text_score = MeanLinkTextQuality(external)
            /\ quality.overall_link_quality_score =
                   RDiv(RAdd(MeanLinkTextQuality(internal), MeanLinkTextQuality(external)),
                        Whole(2))

\* two internal links, a capitalised stopword and a text without one, and
\* one external link without text: the scores are 1.0, 0.25 and their mean
C28_Witness ==
    /\ LinkQualityCalled
    /\ Len(sc_links.d.internal_links.d.links.l) = 2
    /\ AnchorText(sc_links.d.internal_links.d.links.l[1]) = <<"T", "h", "e">>
    /\ AnchorText(sc_links.d.internal_links.d.links.l[2]) = <<"h", "o", "m", "e">>
    /\ AnchorText(sc_links.d.external_links.d.links.l[1]) = <<>>
    /\ Len(sc_links.d.external_links.d.links.l) = 1
    /\ sc_link_score.val.internal_link_text_score = One
    /\ sc_link_score.val.external_link_text_score = Rat(1, 4)
    /\ sc_link_score.val.overall_link_quality_score = Rat(5, 8)
===========================================================================
